---------------------------- MODULE Spec2Model ----------------------------
(***************************************************************************)
(* Model of osbuild-mdb (content-addressed object store, src/mdb/mdb.py)   *)
(* and osbuild-mpp (manifest pre-processor, src/mpp/mpp.py).               *)
(*                                                                         *)
(* SpecStore: processes running `prefetch` and `preprocess` against shared *)
(* store directories.  Every system call that touches a directory is one   *)
(* action, so that concurrent runs interleave as the kernel allows.        *)
(***************************************************************************)
EXTENDS Integers, Sequences, FiniteSets, TLC

(***************************************************************************)
(* Bounds of the model.                                                    *)
(***************************************************************************)
\* longest byte stream, counted in blocks read by one stream.read(4096)
MaxBlocks == 2
\* longest batch (urls of one prefetch run, paths of one preprocess run)
MaxItems == 2
\* deepest nesting of build pipelines in an input manifest
MaxDepth == 1
\* rounds of the driver loop after which the model stops following a run
MaxRounds == 4

None == "None"

(***************************************************************************)
(* Byte streams and their digests.  A stream is a sequence of blocks; the  *)
(* digest is folded over the blocks the way hashproc.update() is fed.      *)
(***************************************************************************)
Blocks == {0, 1}

Contents == UNION {[1..n -> Blocks] : n \in 0..MaxBlocks}

\* hashlib.sha256()
HashNew == 0

\* hashproc.update(block)
HashUpdate(h, block) == 2 * h + block + 1

RECURSIVE HashFrom(_, _)
HashFrom(h, c) == IF c = <<>> THEN h ELSE HashFrom(HashUpdate(h, Head(c)), Tail(c))

\* the digest a reader computes over a whole file
Digest(c) == HashFrom(HashNew, c)

\* "sha256:" + hashproc.hexdigest(), the name used by prefetch
FilesName(h) == <<"sha256:", h>>

\* "sha256-" + hashproc.hexdigest(), the name used by preprocess
ChecksumName(h) == <<"sha256-", h>>

(***************************************************************************)
(* The store.                                                              *)
(***************************************************************************)
Procs == {1, 2}

FilesDir == "org.osbuild.files"
ByChecksumDir == "by-checksum"
Dirs == {FilesDir, ByChecksumDir}

\* source documents of preprocess, relative to --srcdir
Paths == {"a.json", "b.json"}

\* the checksums manifests ask prefetch for
WantedContents == {<<0>>, <<0, 1>>}
Checksums == {FilesName(Digest(c)) : c \in WantedContents}

\* what the mpp subprocess writes to its standard output before it exits
Outputs == {c \in WantedContents : Len(c) <= MaxBlocks}

VARIABLES
    dir,        \* dir[d]: the entries of directory d, name -> file
    byTag,      \* by-tag tree: relative path -> target of the symlink
    tampered,   \* whether anything but this program modified the store
    kind,       \* kind[p]: the subcommand process p runs
    items,      \* items[p]: what is left of p's batch, current item first
    pc,         \* pc[p]: where p is in its code
    result,     \* result[p]: "running", "ok" or the exception that ended p
    ctx,        \* ctx[p]: p's open_tmpfile context and the locals of its loop body
    touched,    \* touched[p]: entries p linked or unlinked for its current item
    started     \* started[p]: <<directory, name>> p ran the publish steps for

storeVars == <<dir, byTag, tampered, kind, items, pc, result, ctx, touched, started>>

\* osbuild-mpp: one run of the pre-processor, and a second one on its output
VARIABLES
    input,      \* the document on standard input
    heap,       \* the Python objects of the run: reference -> dict or list
    mData,       \* Manifest.data: reference of the root dict
    mLinks,      \* Manifest.links: link name -> reference
    mLevels,     \* Manifest.levels: references of the chain of build levels
    mpc,        \* where Mpp is in __enter__ and run()
    procIdx,    \* which of procs the for loop of run() is at
    progress,   \* the variable progress of run()
    todos,      \* the todos of the running pass not yet processed
    worked,     \* len(todos) > 0 of the running pass
    reports,    \* what the passes of the round under way returned, in order
    rounds,     \* rounds of the while loop begun
    run,        \* 1: the run on the input; 2: the run on the output of run 1
    output,     \* what to_stream() wrote on standard output, if anything
    firstOutput,\* the output of run 1
    raised      \* the exception that ended the run, or None

mppVars == <<input, heap, mData, mLinks, mLevels, mpc, procIdx, progress, todos,
             worked, reports, rounds, run, output, firstOutput, raised>>

\* mdb prefetch: MdbPrefetch._collect over the manifests named on the command line
VARIABLES
    argv,       \* args.PATH: the paths of the manifests, in argument order
    cidx,       \* which of them the loop of _collect is at
    collected,  \* sources["org.osbuild.files"]["urls"]
    cpc,        \* where _collect is
    craised     \* the exception that ended _collect, or None

collectVars == <<argv, cidx, collected, cpc, craised>>

vars == <<storeVars, mppVars, collectVars>>

\* a dict/directory as a function: helpers
Put(f, k, v) == [x \in (DOMAIN f) \cup {k} |-> IF x = k THEN v ELSE f[x]]
Del(f, k) == [x \in (DOMAIN f) \ {k} |-> f[x]]
Empty == [x \in {} |-> x]

\* the sequences of length 1..n over S without repetition (the keys of a dict)
DistinctSeqs(S, n) ==
    {s \in UNION {[1..k -> S] : k \in 1..n} :
        \A i, j \in DOMAIN s : i # j => s[i] # s[j]}

Batches(k) ==
    IF k = "prefetch"
    THEN DistinctSeqs(Checksums, MaxItems)
    ELSE UNION {[1..n -> Paths] : n \in 1..MaxItems}

\* no producer, no anonymous file, no digest: outside the `with` blocks
\*   stream:   what the producer has yet to deliver
\*   status:   exit status of the mpp subprocess
\*   tmp:      content of the anonymous O_TMPFILE file
\*   hashproc: running digest
\*   name:     ctx["name"]
NoCtx == [stream |-> <<>>, status |-> 0, tmp |-> <<>>, hashproc |-> HashNew,
          name |-> None]

\* the processes of one scenario run the same subcommand: prefetch and
\* preprocess work on different directories and never meet
StoreInit ==
    /\ dir = [d \in Dirs |-> Empty]
    /\ byTag = Empty
    /\ tampered = FALSE
    /\ kind \in {[p \in Procs |-> k] : k \in {"prefetch", "preprocess"}}
    /\ \E pf \in [Procs -> Batches("prefetch")], pp \in [Procs -> Batches("preprocess")] :
          items = [p \in Procs |-> IF kind[p] = "prefetch" THEN pf[p] ELSE pp[p]]
    /\ pc = [p \in Procs |-> "next"]
    /\ result = [p \in Procs |-> "running"]
    /\ ctx = [p \in Procs |-> NoCtx]
    /\ touched = [p \in Procs |-> {}]
    /\ started = [p \in Procs |-> {}]
    \* no pre-processor at work
    /\ input = Empty
    /\ heap = <<>>
    /\ mData = 0
    /\ mLinks = Empty
    /\ mLevels = <<>>
    /\ mpc = "idle"
    /\ procIdx = 0
    /\ progress = FALSE
    /\ todos = <<>>
    /\ worked = FALSE
    /\ reports = <<>>
    /\ rounds = 0
    /\ run = 0
    /\ output = <<>>
    /\ firstOutput = <<>>
    /\ raised = None
    \* no _collect at work
    /\ argv = <<>>
    /\ cidx = 0
    /\ collected = Empty
    /\ cpc = "idle"
    /\ craised = None

(***************************************************************************)
(* An exception leaves the `with` blocks (closing the producer and the     *)
(* anonymous file, which never got a name), the loop, the subcommand and   *)
(* the process.                                                            *)
(***************************************************************************)
\* Mutant of Raise: the error is noted and the loop goes back to its head.
RaiseAndGoOn(p, exc) ==
    /\ pc' = [pc EXCEPT ![p] = "next"]
    /\ result' = [result EXCEPT ![p] = exc]
    /\ ctx' = [ctx EXCEPT ![p] = NoCtx]

Raise(p, exc) ==
    /\ pc' = [pc EXCEPT ![p] = "failed"]
    /\ result' = [result EXCEPT ![p] = exc]
    /\ ctx' = [ctx EXCEPT ![p] = NoCtx]

\* the exceptions a writer raises before ctx["name"] is set
WriterFailures == {"URLError", "ChecksumMismatch", "MppFailed"}

(***************************************************************************)
(* open_tmpfile: the publish steps run after the body returned normally.   *)
(***************************************************************************)
\* which directory p's open_tmpfile was opened on
TmpDir(p) == IF kind[p] = "prefetch" THEN FilesDir ELSE ByChecksumDir

\* os.open(".", O_TMPFILE) and fdopen, then hashlib.sha256(): a fresh
\* anonymous file without a name, fed by producer output c ending in status s
OpenTmpfile(c, s) == [NoCtx EXCEPT !.stream = c, !.status = s]

\* with suppress_oserror(ENOENT): os.unlink(ctx["name"], dir_fd=dirfd)
TmpfileUnlink(p) ==
    /\ pc[p] = "unlink"
    /\ ctx[p].name # None
    /\ LET d == TmpDir(p)
           n == ctx[p].name
       IN /\ dir' = [dir EXCEPT ![d] = Del(dir[d], n)]
          /\ touched' = [touched EXCEPT ![p] =
                            IF n \in DOMAIN dir[d] THEN @ \cup {<<"unlink", n>>} ELSE @]
          /\ started' = [started EXCEPT ![p] = @ \cup {<<d, n>>}]
    /\ pc' = [pc EXCEPT ![p] = "link"]
    /\ UNCHANGED <<byTag, tampered, kind, items, result, ctx>>
    /\ UNCHANGED mppVars
    /\ UNCHANGED collectVars

\* Mutant of TmpfileLink: a link that finds the name taken removes the name
\* before it gives up.
TmpfileLinkCleansUp(p) ==
    /\ pc[p] = "link"
    /\ LET d == TmpDir(p)
           n == ctx[p].name
       IN IF n \in DOMAIN dir[d]
          THEN /\ Raise(p, "FileExistsError(link)")
               /\ dir' = [dir EXCEPT ![d] = Del(dir[d], n)]
               /\ UNCHANGED <<touched, items>>
          ELSE /\ dir' = [dir EXCEPT ![d] = Put(dir[d], n,
                            [data |-> ctx[p].tmp, whole |-> ctx[p].stream = <<>>])]
               /\ touched' = [touched EXCEPT ![p] = @ \cup {<<"link", n>>}]
               /\ IF kind[p] = "prefetch"
                  THEN /\ pc' = [pc EXCEPT ![p] = "next"]
                       /\ items' = [items EXCEPT ![p] = Tail(@)]
                       /\ ctx' = [ctx EXCEPT ![p] = NoCtx]
                  ELSE /\ pc' = [pc EXCEPT ![p] = "bytag_unlink"]
                       /\ ctx' = [ctx EXCEPT ![p] = [NoCtx EXCEPT !.name = n]]
                       /\ UNCHANGED items
               /\ UNCHANGED result
    /\ UNCHANGED <<byTag, tampered, kind, started>>
    /\ UNCHANGED mppVars
    /\ UNCHANGED collectVars

\* os.link(f"/proc/self/fd/{fd}", ctx["name"], dst_dir_fd=dirfd):
\* fails with EEXIST when the name is taken.  Then the file is closed;
\* prefetch goes on with the next url, preprocess with the by-tag link.
TmpfileLink(p) ==
    /\ pc[p] = "link"
    /\ LET d == TmpDir(p)
           n == ctx[p].name
       IN IF n \in DOMAIN dir[d]
          THEN /\ Raise(p, "FileExistsError(link)")
               /\ UNCHANGED <<dir, touched, items>>
          ELSE /\ dir' = [dir EXCEPT ![d] = Put(dir[d], n,
                            [data |-> ctx[p].tmp, whole |-> ctx[p].stream = <<>>])]
               /\ touched' = [touched EXCEPT ![p] = @ \cup {<<"link", n>>}]
               /\ IF kind[p] = "prefetch"
                  THEN /\ pc' = [pc EXCEPT ![p] = "next"]
                       /\ items' = [items EXCEPT ![p] = Tail(@)]
                       /\ ctx' = [ctx EXCEPT ![p] = NoCtx]
                  ELSE /\ pc' = [pc EXCEPT ![p] = "bytag_unlink"]
                       /\ ctx' = [ctx EXCEPT ![p] = [NoCtx EXCEPT !.name = n]]
                       /\ UNCHANGED items
               /\ UNCHANGED result
    /\ UNCHANGED <<byTag, tampered, kind, started>>
    /\ UNCHANGED mppVars
    /\ UNCHANGED collectVars

(***************************************************************************)
(* MdbPrefetch._process_org_osbuild_files, one url of the loop at a time.  *)
(***************************************************************************)
\* loop head and os.access(path, R_OK)
PrefetchAccess(p) ==
    /\ kind[p] = "prefetch"
    /\ pc[p] = "next"
    /\ items[p] # <<>>
    /\ pc' = [pc EXCEPT ![p] =
                 IF Head(items[p]) \in DOMAIN dir[FilesDir] THEN "cached" ELSE "download"]
    /\ touched' = [touched EXCEPT ![p] = {}]
    /\ UNCHANGED <<dir, byTag, tampered, kind, items, result, ctx, started>>
    /\ UNCHANGED mppVars
    /\ UNCHANGED collectVars

\* Mutant of CachedOk: a cached file is trusted without being re-hashed.
CachedTrusted(data, checksum) == TRUE

\* whether the re-hash of a cached file accepts it
CachedOk(data, checksum) == FilesName(Digest(data)) = checksum

\* (cached): open(path), hash it block by block, compare with the checksum
PrefetchVerifyCached(p) ==
    /\ kind[p] = "prefetch"
    /\ pc[p] = "cached"
    /\ LET n == Head(items[p])
       IN IF n \notin DOMAIN dir[FilesDir]
          THEN /\ Raise(p, "FileNotFoundError")
               /\ UNCHANGED items
          ELSE IF CachedOk(dir[FilesDir][n].data, n)
               THEN /\ items' = [items EXCEPT ![p] = Tail(@)]
                    /\ pc' = [pc EXCEPT ![p] = "next"]
                    /\ UNCHANGED <<result, ctx>>
               ELSE /\ Raise(p, "WrongChecksum")
                    /\ UNCHANGED items
    /\ UNCHANGED <<dir, byTag, tampered, kind, touched, started>>
    /\ UNCHANGED mppVars
    /\ UNCHANGED collectVars

\* (download): urllib.request.urlopen(url) fails, or answers with some
\* stream; then open_tmpfile and hashlib.sha256()
PrefetchUrlopen(p) ==
    /\ kind[p] = "prefetch"
    /\ pc[p] = "download"
    /\ \/ Raise(p, "URLError")
       \/ /\ \E c \in Contents : ctx' = [ctx EXCEPT ![p] = OpenTmpfile(c, 0)]
          /\ pc' = [pc EXCEPT ![p] = "stream"]
          /\ UNCHANGED result
    /\ UNCHANGED <<dir, byTag, tampered, kind, items, touched, started>>
    /\ UNCHANGED mppVars
    /\ UNCHANGED collectVars

\* one round of the copy loop: hashproc.update(block); ctx["stream"].write(block)
CopyBlock(c) ==
    [c EXCEPT !.hashproc = HashUpdate(@, Head(c.stream)),
              !.tmp = Append(@, Head(c.stream)),
              !.stream = Tail(@)]

\* stream.read(4096) returns a block, or the connection breaks
PrefetchRead(p) ==
    /\ kind[p] = "prefetch"
    /\ pc[p] = "stream"
    /\ ctx[p].stream # <<>>
    /\ \/ /\ ctx' = [ctx EXCEPT ![p] = CopyBlock(@)]
          /\ UNCHANGED <<pc, result>>
       \/ Raise(p, "URLError")
    /\ UNCHANGED <<dir, byTag, tampered, kind, items, touched, started>>
    /\ UNCHANGED mppVars
    /\ UNCHANGED collectVars

\* Mutant of DownloadOk: the download is published without comparing digests.
DownloadUnchecked(h, checksum) == TRUE

\* whether the digest of what was downloaded is the one asked for
DownloadOk(h, checksum) == FilesName(h) = checksum

\* Mutant of PrefetchCheck: content with another digest than the one asked
\* for is published under the digest it has.
PrefetchCheckKeepsActual(p) ==
    /\ kind[p] = "prefetch"
    /\ pc[p] = "stream"
    /\ ctx[p].stream = <<>>
    /\ ctx' = [ctx EXCEPT ![p].name = FilesName(ctx[p].hashproc)]
    /\ pc' = [pc EXCEPT ![p] = "unlink"]
    /\ UNCHANGED result
    /\ UNCHANGED <<dir, byTag, tampered, kind, items, touched, started>>
    /\ UNCHANGED mppVars
    /\ UNCHANGED collectVars

\* end of stream: compare the digest, and only then set ctx["name"]
PrefetchCheck(p) ==
    /\ kind[p] = "prefetch"
    /\ pc[p] = "stream"
    /\ ctx[p].stream = <<>>
    /\ IF DownloadOk(ctx[p].hashproc, Head(items[p]))
       THEN /\ ctx' = [ctx EXCEPT ![p].name = Head(items[p])]
            /\ pc' = [pc EXCEPT ![p] = "unlink"]
            /\ UNCHANGED result
       ELSE Raise(p, "ChecksumMismatch")
    /\ UNCHANGED <<dir, byTag, tampered, kind, items, touched, started>>
    /\ UNCHANGED mppVars
    /\ UNCHANGED collectVars

(***************************************************************************)
(* MdbPreprocess._process, one path of the loop of run() at a time.        *)
(***************************************************************************)
\* open(src_path), open_tmpfile(hash_dir), subprocess.Popen(mpp): the
\* subprocess will write some stream and exit with some status
PreprocessSpawn(p) ==
    /\ kind[p] = "preprocess"
    /\ pc[p] = "next"
    /\ items[p] # <<>>
    /\ \E c \in Outputs, s \in {0, 1} : ctx' = [ctx EXCEPT ![p] = OpenTmpfile(c, s)]
    /\ touched' = [touched EXCEPT ![p] = {}]
    /\ pc' = [pc EXCEPT ![p] = "stream"]
    /\ UNCHANGED <<dir, byTag, tampered, kind, items, result, started>>
    /\ UNCHANGED mppVars
    /\ UNCHANGED collectVars

\* proc.stdout.read(4096) returns a block
PreprocessRead(p) ==
    /\ kind[p] = "preprocess"
    /\ pc[p] = "stream"
    /\ ctx[p].stream # <<>>
    /\ ctx' = [ctx EXCEPT ![p] = CopyBlock(@)]
    /\ UNCHANGED <<dir, byTag, tampered, kind, items, pc, result, touched, started>>
    /\ UNCHANGED mppVars
    /\ UNCHANGED collectVars

\* whether the subprocess succeeded
MppOk(s) == s = 0

\* Mutant of PreprocessWait: ctx["name"] is set before the exit status is
\* looked at and the file is linked on the way out of a failed body too.
PreprocessWaitLinksFirst(p) ==
    /\ kind[p] = "preprocess"
    /\ pc[p] = "stream"
    /\ ctx[p].stream = <<>>
    /\ IF MppOk(ctx[p].status)
       THEN /\ ctx' = [ctx EXCEPT ![p].name = ChecksumName(ctx[p].hashproc)]
            /\ pc' = [pc EXCEPT ![p] = "unlink"]
            /\ UNCHANGED <<result, dir>>
       ELSE /\ Raise(p, "MppFailed")
            /\ dir' = [dir EXCEPT ![ByChecksumDir] =
                          Put(@, ChecksumName(ctx[p].hashproc),
                              [data |-> ctx[p].tmp, whole |-> TRUE])]
    /\ UNCHANGED <<byTag, tampered, kind, items, touched, started>>
    /\ UNCHANGED mppVars
    /\ UNCHANGED collectVars

\* end of stream: proc.wait(); only on status 0 set ctx["name"]
PreprocessWait(p) ==
    /\ kind[p] = "preprocess"
    /\ pc[p] = "stream"
    /\ ctx[p].stream = <<>>
    /\ IF MppOk(ctx[p].status)
       THEN /\ ctx' = [ctx EXCEPT ![p].name = ChecksumName(ctx[p].hashproc)]
            /\ pc' = [pc EXCEPT ![p] = "unlink"]
            /\ UNCHANGED result
       ELSE Raise(p, "MppFailed")
    /\ UNCHANGED <<dir, byTag, tampered, kind, items, touched, started>>
    /\ UNCHANGED mppVars
    /\ UNCHANGED collectVars

\* os.makedirs(dst_dir); with suppress_oserror(ENOENT): os.unlink(dst_path)
ByTagUnlink(p) ==
    /\ kind[p] = "preprocess"
    /\ pc[p] = "bytag_unlink"
    /\ byTag' = Del(byTag, Head(items[p]))
    /\ pc' = [pc EXCEPT ![p] = "bytag_symlink"]
    /\ UNCHANGED <<dir, tampered, kind, items, result, ctx, touched, started>>
    /\ UNCHANGED mppVars
    /\ UNCHANGED collectVars

\* Mutant of ByTagSymlink: a link that is there is left alone and the
\* document counts as processed.
ByTagSymlinkKeepsOld(p) ==
    /\ kind[p] = "preprocess"
    /\ pc[p] = "bytag_symlink"
    /\ byTag' = IF Head(items[p]) \in DOMAIN byTag THEN byTag
                ELSE Put(byTag, Head(items[p]), ctx[p].name)
    /\ items' = [items EXCEPT ![p] = Tail(@)]
    /\ pc' = [pc EXCEPT ![p] = "next"]
    /\ ctx' = [ctx EXCEPT ![p] = NoCtx]
    /\ UNCHANGED result
    /\ UNCHANGED <<dir, tampered, kind, touched, started>>
    /\ UNCHANGED mppVars
    /\ UNCHANGED collectVars

\* os.symlink(relpath(hash_path, dst_dir), dst_path): EEXIST when taken
ByTagSymlink(p) ==
    /\ kind[p] = "preprocess"
    /\ pc[p] = "bytag_symlink"
    /\ IF Head(items[p]) \in DOMAIN byTag
       THEN /\ Raise(p, "FileExistsError(symlink)")
            /\ UNCHANGED <<byTag, items>>
       ELSE /\ byTag' = Put(byTag, Head(items[p]), ctx[p].name)
            /\ items' = [items EXCEPT ![p] = Tail(@)]
            /\ pc' = [pc EXCEPT ![p] = "next"]
            /\ ctx' = [ctx EXCEPT ![p] = NoCtx]
            /\ UNCHANGED result
    /\ UNCHANGED <<dir, tampered, kind, touched, started>>
    /\ UNCHANGED mppVars
    /\ UNCHANGED collectVars

\* the loop is exhausted: run() returns 0
RunReturn(p) ==
    /\ pc[p] = "next"
    /\ items[p] = <<>>
    /\ pc' = [pc EXCEPT ![p] = "done"]
    /\ result' = [result EXCEPT ![p] = "ok"]
    /\ UNCHANGED <<dir, byTag, tampered, kind, items, ctx, touched, started>>
    /\ UNCHANGED mppVars
    /\ UNCHANGED collectVars

(***************************************************************************)
(* The environment: something other than this program rewrites a cached    *)
(* file in place (bit rot, a truncated copy, an editor).                   *)
(***************************************************************************)
Corrupt ==
    /\ ~tampered
    /\ \E n \in DOMAIN dir[FilesDir], c \in Contents :
          /\ c # dir[FilesDir][n].data
          /\ dir' = [dir EXCEPT ![FilesDir] = Put(@, n, [data |-> c, whole |-> FALSE])]
    /\ tampered' = TRUE
    /\ UNCHANGED <<byTag, kind, items, pc, result, ctx, touched, started>>
    /\ UNCHANGED mppVars
    /\ UNCHANGED collectVars

StoreNext ==
    \/ \E p \in Procs :
          \/ PrefetchAccess(p)
          \/ PrefetchVerifyCached(p)
          \/ PrefetchUrlopen(p)
          \/ PrefetchRead(p)
          \/ PrefetchCheck(p)
          \/ PreprocessSpawn(p)
          \/ PreprocessRead(p)
          \/ PreprocessWait(p)
          \/ TmpfileUnlink(p)
          \/ TmpfileLink(p)
          \/ ByTagUnlink(p)
          \/ ByTagSymlink(p)
          \/ RunReturn(p)
    \/ Corrupt

SpecStore == StoreInit /\ [][StoreNext]_vars

(***************************************************************************)
(*                     osbuild-mpp: the manifest model                     *)
(*                                                                         *)
(* A JSON document is a nested value: a dict is a function on strings, a   *)
(* list a sequence, everything else an atom.  json.load() turns it into    *)
(* Python objects, modelled as a heap of dicts and lists that refer to     *)
(* each other by their place in the heap, since the passes keep references *)
(* (levels, links, todos) to objects of the tree while they rewrite it.    *)
(***************************************************************************)
\* keys whose value is a dict
DictKeys == {"pipeline", "build", "sources", "org.osbuild.files",
             "org.osbuild.curl", "urls", "options"}

\* the key whose value is a list of dicts
ListKey == "stages"

\* the reference None
NoneRef == 0

\* json.load(): the objects of document doc are added to heap h; the result
\* is the new heap and the reference v of the outermost dict
RECURSIVE LoadDict(_, _), LoadFields(_, _, _, _), LoadList(_, _, _)
LoadDict(h, doc) == LoadFields(h, doc, DOMAIN doc, Empty)

LoadFields(h, doc, keys, acc) ==
    IF keys = {}
    THEN [h |-> Append(h, acc), v |-> Len(h) + 1]
    ELSE LET k == CHOOSE x \in keys : TRUE
             r == IF k \in DictKeys THEN LoadDict(h, doc[k])
                  ELSE IF k = ListKey THEN LoadList(h, doc[k], <<>>)
                  ELSE [h |-> h, v |-> doc[k]]
         IN LoadFields(r.h, doc, keys \ {k}, Put(acc, k, r.v))

LoadList(h, elems, acc) ==
    IF elems = <<>>
    THEN [h |-> Append(h, acc), v |-> Len(h) + 1]
    ELSE LET r == LoadDict(h, Head(elems))
         IN LoadList(r.h, Tail(elems), Append(acc, r.v))

\* copy.deepcopy(self.data) as handed to json.dump(): the document that
\* the objects reachable from dict id make up
RECURSIVE DumpDict(_, _)
DumpDict(h, id) ==
    [k \in DOMAIN h[id] |->
        IF k \in DictKeys THEN DumpDict(h, h[id][k])
        ELSE IF k = ListKey
             THEN [i \in DOMAIN h[h[id][k]] |-> DumpDict(h, h[h[id][k]][i])]
             ELSE h[id][k]]

\* dct.get(key) of the dict at reference id: a reference or None
GetRef(h, id, key) == IF key \in DOMAIN h[id] THEN h[id][key] ELSE NoneRef

\* Python's truth value of `itr`, a dict or None
Truthy(h, ref) == ref # NoneRef /\ h[ref] # Empty

\* dct[key] = value on the dict at reference id
SetItem(h, id, key, value) == [h EXCEPT ![id] = Put(@, key, value)]

\* del dct[key]
DelItem(h, id, key) == [h EXCEPT ![id] = Del(@, key)]

\* dict_enter(dct, key, default) with an empty container as default
DictEnter(h, id, key) ==
    IF key \notin DOMAIN h[id]
    THEN [h |-> SetItem(Append(h, Empty), id, key, Len(h) + 1), v |-> Len(h) + 1]
    ELSE [h |-> h, v |-> h[id][key]]

\* Mutant of DictStrip: the entry goes whatever it holds.
DictStripAlways(dct, key, condition) == Del(dct, key)

\* dict_strip(dct, key, condition) on a document
DictStrip(dct, key, condition) ==
    IF key \in DOMAIN dct /\ dct[key] = condition THEN Del(dct, key) ELSE dct

\* key.startswith("mpp-")
StartsWithMpp(key) ==
    key \in {"mpp-depsolve", "mpp-pipeline-base", "mpp-pipeline-import", "mpp-note"}

\* dict_contains_only(dct, allowed)
DictContainsOnly(dct, allowed) ==
    \A key \in DOMAIN dct : StartsWithMpp(key) \/ key \in allowed

\* Manifest._linkinfo
LinkInfo == <<
    [link |-> "pipeline", path |-> <<"pipeline">>, default |-> Empty],
    [link |-> "stages", path |-> <<"pipeline", "stages">>, default |-> <<>>],
    [link |-> "sources", path |-> <<"sources">>, default |-> Empty],
    [link |-> "files", path |-> <<"sources", "org.osbuild.files">>, default |-> Empty],
    [link |-> "urls", path |-> <<"sources", "org.osbuild.files", "urls">>,
     default |-> Empty] >>

Last(seq) == seq[Len(seq)]
Front(seq) == SubSeq(seq, 1, Len(seq) - 1)
Reverse(seq) == [i \in 1..Len(seq) |-> seq[Len(seq) + 1 - i]]

\* Manifest._strip, the body of the loop for one link: walk down the path
\* with .get(), give up at a missing or empty step, else dict_strip
RECURSIVE StripPath(_, _, _)
StripPath(doc, path, default) ==
    IF Len(path) = 1 THEN DictStrip(doc, path[1], default)
    ELSE IF Head(path) \notin DOMAIN doc \/ doc[Head(path)] = Empty THEN doc
    ELSE Put(doc, Head(path), StripPath(doc[Head(path)], Tail(path), default))

RECURSIVE StripAll(_, _)
StripAll(doc, infos) ==
    IF infos = <<>> THEN doc
    ELSE StripAll(StripPath(doc, Head(infos).path, Head(infos).default), Tail(infos))

\* Mutant of Strip: the links are visited root first.
StripForward(h, data) == StripAll(DumpDict(h, data), LinkInfo)

\* Manifest._strip: the document to_stream() writes, json.dump(sort_keys=True)
Strip(h, data) == StripAll(DumpDict(h, data), Reverse(LinkInfo))

\* Manifest.refresh, the loop over _linkinfo: enter every link, creating
\* what is missing; m is [h: heap, links: link -> reference]
RECURSIVE WalkPath(_, _, _)
WalkPath(h, itr, steps) ==
    IF steps = <<>> THEN itr ELSE WalkPath(h, h[itr][Head(steps)], Tail(steps))

RECURSIVE RefreshLinks(_, _, _)
RefreshLinks(m, data, infos) ==
    IF infos = <<>> THEN m
    ELSE LET info == Head(infos)
             r == DictEnter(m.h, WalkPath(m.h, data, Front(info.path)), Last(info.path))
         IN RefreshLinks([h |-> r.h, links |-> Put(m.links, info.link, r.v)],
                         data, Tail(infos))

\* Manifest.refresh, the loop collecting the chain of build pipelines
RECURSIVE RefreshLevels(_, _, _)
RefreshLevels(h, itr, acc) ==
    IF ~Truthy(h, itr) THEN acc
    ELSE LET pipeline == GetRef(h, itr, "pipeline")
         IN RefreshLevels(h,
                IF Truthy(h, pipeline) THEN GetRef(h, pipeline, "build") ELSE pipeline,
                Append(acc, itr))

\* Manifest.refresh, the sanity tests: what the calls of dict_contains_only
\* return
RefreshSane(h, links, levels, data) ==
    /\ DictContainsOnly(h[data], {"pipeline", "sources"})
    /\ DictContainsOnly(h[links["pipeline"]], {"build", "stages"})
    /\ DictContainsOnly(h[links["sources"]], {"org.osbuild.files"})
    /\ DictContainsOnly(h[links["files"]], {"urls"})
    /\ \A i \in DOMAIN levels :
          /\ DumpDict(h, levels[i]) # DumpDict(h, data) =>
                DictContainsOnly(h[levels[i]], {"pipeline", "runner"})
          /\ "pipeline" \in DOMAIN h[levels[i]] =>
                DictContainsOnly(h[h[levels[i]]["pipeline"]], {"build", "stages"})

\* Mutant of Refresh: the links are entered, the chain of build levels is
\* not followed.
RefreshRootOnly(h, data) ==
    LET m == RefreshLinks([h |-> h, links |-> Empty], data, LinkInfo)
    IN [h |-> m.h, links |-> m.links, levels |-> <<data>>, exc |-> None]

\* Manifest.refresh: [h: heap, links, levels, exc]; the values the sanity
\* tests return are dropped, so refresh raises nothing
Refresh(h, data) ==
    LET m == RefreshLinks([h |-> h, links |-> Empty], data, LinkInfo)
        levels == RefreshLevels(m.h, data, <<>>)
        sane == RefreshSane(m.h, m.links, levels, data)
    IN [h |-> m.h, links |-> m.links, levels |-> levels, exc |-> None]

(***************************************************************************)
(* Documents: the files below --cwd that annotations name, and the input   *)
(* manifests read from standard input.                                     *)
(***************************************************************************)
RpmStage == "org.osbuild.rpm"

\* an mpp-depsolve annotation asking for packages specs
DepsolveOpts(specs) ==
    "architecture" :> "x86_64" @@ "fedora" :> "38" @@
    "baseurl" :> "https://example/repo" @@ "packages" :> specs

StagePlain == "name" :> "org.osbuild.noop"
StageRpm == "name" :> RpmStage @@
            "options" :> ("mpp-depsolve" :> DepsolveOpts(<<"bash">>))
StageRpmMore == "name" :> RpmStage @@
                "options" :> ("packages" :> <<"sha256:00">> @@
                              "mpp-depsolve" :> DepsolveOpts(<<"bash">>))
StageRpmNone == "name" :> RpmStage @@
                "options" :> ("mpp-depsolve" :> DepsolveOpts(<<>>))

UrlsOf(checksum, url) == "org.osbuild.files" :> ("urls" :> (checksum :> url))

\* the decodable files below --cwd
Files ==
    "leaf.json" :>
        ("pipeline" :> ("stages" :> <<StagePlain>>) @@
         "sources" :> UrlsOf("sha256:aa", "https://leaf/aa")) @@
    "base.json" :>
        ("pipeline" :> ("build" :> ("pipeline" :> ("stages" :> <<StagePlain>>) @@
                                    "runner" :> "org.osbuild.base") @@
                        "stages" :> <<StageRpm>>) @@
         "sources" :> UrlsOf("sha256:aa", "https://base/aa")) @@
    "rootbuild.json" :>
        ("build" :> ("runner" :> "org.osbuild.rootbuild") @@
         "pipeline" :> ("stages" :> <<StagePlain>>)) @@
    "chain.json" :>
        ("pipeline" :> ("mpp-pipeline-base" :> "leaf.json" @@
                        "build" :> ("mpp-pipeline-import" :> "leaf.json" @@
                                    "runner" :> "org.osbuild.chain"))) @@
    "cycA.json" :>
        ("pipeline" :> ("mpp-pipeline-base" :> "cycB.json" @@
                        "stages" :> <<StagePlain>>)) @@
    "cycB.json" :>
        ("pipeline" :> ("mpp-pipeline-base" :> "cycA.json")) @@
    "loop.json" :>
        ("pipeline" :> ("build" :> ("mpp-pipeline-import" :> "loop.json"))) @@
    "fragA.json" :> ("mpp-pipeline-import" :> "fragB.json") @@
    "fragB.json" :> ("mpp-pipeline-import" :> "fragA.json") @@
    "nestA.json" :>
        ("pipeline" :> ("build" :> ("mpp-pipeline-import" :> "nestB.json" @@
                                    "runner" :> "org.osbuild.nest"))) @@
    "nestB.json" :>
        ("pipeline" :> ("build" :> ("mpp-pipeline-import" :> "nestA.json" @@
                                    "runner" :> "org.osbuild.nest"))) @@
    "badsrc.json" :>
        ("pipeline" :> ("stages" :> <<StagePlain>>) @@
         "sources" :> (UrlsOf("sha256:bb", "https://bad/bb") @@
                       "org.osbuild.curl" :> Empty))

\* files that exist and are not JSON
Garbage == {"garbage.json"}

\* a name no file has
Missing == "missing.json"

\* the options of the input manifests: each a sequence holding the value,
\* or the empty sequence for a key left out
Some(S) == {<<x>> : x \in S}
Maybe(S) == {<<>>} \cup Some(S)

OptBaseRoot == Maybe({"leaf.json", "base.json", "rootbuild.json", "cycA.json",
                      "badsrc.json"})
OptBaseNested == Maybe({"rootbuild.json"})
OptImportRoot == Maybe({"leaf.json", "chain.json", "loop.json", "badsrc.json",
                        "garbage.json", Missing})
OptImportNested == Maybe({"leaf.json"})
OptStagesRoot == Maybe({<<StagePlain>>, <<StageRpm, StageRpmMore>>})
OptStagesNested == Maybe({<<StageRpmNone>>})
OptSources == Maybe({UrlsOf("sha256:aa", "https://in/aa")})

\* the dict with the entry key -> value of option opt, if it holds one
Opt(key, opt) == IF opt = <<>> THEN Empty ELSE key :> opt[1]

\* the nested levels (build pipelines) up to depth d, and their pipelines
RECURSIVE NestedLevels(_)
NestedPipelines(d) ==
    {Opt("mpp-pipeline-base", b) @@ Opt("stages", st) @@ Opt("build", bld) :
        b \in OptBaseNested, st \in OptStagesNested,
        bld \in IF d = 0 THEN {<<>>} ELSE Maybe(NestedLevels(d - 1))}

NestedLevels(d) ==
    {("runner" :> "org.osbuild.f38") @@ Opt("mpp-pipeline-import", i) @@ Opt("pipeline", p) :
        i \in OptImportNested, p \in Maybe(NestedPipelines(d))}

RootPipelines ==
    {Opt("mpp-pipeline-base", b) @@ Opt("stages", st) @@ Opt("build", bld) :
        b \in OptBaseRoot, st \in OptStagesRoot,
        bld \in IF MaxDepth = 0 THEN {<<>>} ELSE Maybe(NestedLevels(MaxDepth - 1))}

\* schema-conforming input manifests
PlainInputs ==
    {Opt("mpp-pipeline-import", i) @@ Opt("pipeline", p) @@ Opt("sources", src) :
        i \in OptImportRoot, p \in Maybe(RootPipelines), src \in OptSources}

(***************************************************************************)
(* The external resolver (dnf): the packages of the repository, and the    *)
(* transactions base.resolve() may come up with, in any order.             *)
(***************************************************************************)
PkgBash == [checksum |-> "sha256:bb", name |-> "bash", path |-> "Packages/bash.rpm"]
PkgGlibc == [checksum |-> "sha256:aa", name |-> "glibc", path |-> "Packages/glibc.rpm"]

Transactions == {<<PkgBash>>, <<PkgBash, PkgGlibc>>, <<PkgGlibc, PkgBash>>}

\* the checksum strings of the model in lexicographic order
ChecksumOrder == <<"sha256:00", "sha256:aa", "sha256:bb">>
Rank(checksum) == CHOOSE i \in DOMAIN ChecksumOrder : ChecksumOrder[i] = checksum

\* sorted(deps, key=lambda dep: dep["checksum"])
RECURSIVE SortedByChecksum(_)
Insert(dep, sorted) ==
    LET before == SelectSeq(sorted, LAMBDA d : Rank(d.checksum) <= Rank(dep.checksum))
        after == SelectSeq(sorted, LAMBDA d : Rank(d.checksum) > Rank(dep.checksum))
    IN before \o <<dep>> \o after
SortedByChecksum(deps) ==
    IF deps = <<>> THEN <<>>
    ELSE Insert(Last(deps), SortedByChecksum(Front(deps)))

\* options.get("packages", [])
OptPackages(options) ==
    IF "packages" \in DOMAIN options THEN options["packages"] ELSE <<>>

\* Mutant of DnfResolve: the packages are returned in transaction order.
DnfResolveUnsorted(options, transaction) ==
    IF Len(OptPackages(options)) > 0 THEN transaction ELSE <<>>

\* MppDepsolve._dnf_resolve, given the transaction dnf resolved
DnfResolve(options, transaction) ==
    IF Len(OptPackages(options)) > 0 THEN SortedByChecksum(transaction) ELSE <<>>

(***************************************************************************)
(* Manifest.update_urls and Manifest.update_sources                        *)
(***************************************************************************)
\* Mutant of UpdateUrls: an url the manifest has for a checksum is kept.
UpdateUrlsKeepsOld(h, links, urls) == [h EXCEPT ![links["urls"]] = @ @@ urls]

\* self.links["urls"].update(urls)
UpdateUrls(h, links, urls) == [h EXCEPT ![links["urls"]] = urls @@ @]

\* the orders in which a dict with these keys may list them
Orders(keys) ==
    {o \in [1..Cardinality(keys) -> keys] : \A i, j \in DOMAIN o : i # j => o[i] # o[j]}

\* Manifest.update_sources(sources), the dict at reference src listing its
\* keys in this order; [h: heap, exc: None or the exception raised]
RECURSIVE UpdateSources(_, _, _, _)
UpdateSources(h, links, src, order) ==
    IF order = <<>> THEN [h |-> h, exc |-> None]
    ELSE IF Head(order) = "org.osbuild.files"
         THEN LET value == h[src][Head(order)]
              IN IF ~DictContainsOnly(h[value], {"urls"})
                 THEN [h |-> h, exc |-> "AssertionError"]
                 ELSE UpdateSources(
                          IF "urls" \in DOMAIN h[value]
                          THEN UpdateUrls(h, links, h[h[value]["urls"]])
                          ELSE h,
                          links, src, Tail(order))
         ELSE [h |-> h, exc |-> "ValueError(Unknown source type)"]

\* open(os.path.join(cwd, path)) and Manifest.from_stream(stream):
\* [h, data, links, exc]
ImportManifest(h, path) ==
    IF path \in Garbage
    THEN [h |-> h, data |-> NoneRef, links |-> Empty, exc |-> "JSONDecodeError"]
    ELSE IF path \notin DOMAIN Files
    THEN [h |-> h, data |-> NoneRef, links |-> Empty, exc |-> "FileNotFoundError"]
    ELSE LET l == LoadDict(h, Files[path])
             r == Refresh(l.h, l.v)
         IN [h |-> r.h, data |-> l.v, links |-> r.links, exc |-> r.exc]

(***************************************************************************)
(* MppDepsolve                                                             *)
(***************************************************************************)
\* itr.get("pipeline", {}).get("stages", []) of the level at reference itr
StagesOf(h, itr) ==
    IF "pipeline" \in DOMAIN h[itr] /\ ListKey \in DOMAIN h[h[itr]["pipeline"]]
    THEN h[h[h[itr]["pipeline"]][ListKey]]
    ELSE <<>>

\* the test of MppDepsolve._collect on one stage
IsDepsolveTodo(h, stage) ==
    /\ "name" \in DOMAIN h[stage]
    /\ h[stage]["name"] = RpmStage
    /\ "options" \in DOMAIN h[stage]
    /\ "mpp-depsolve" \in DOMAIN h[h[stage]["options"]]

\* MppDepsolve._collect
RECURSIVE DepsolveCollect(_, _)
DepsolveCollect(h, lvls) ==
    IF lvls = <<>> THEN <<>>
    ELSE SelectSeq(StagesOf(h, Head(lvls)), LAMBDA st : IsDepsolveTodo(h, st))
         \o DepsolveCollect(h, Tail(lvls))

\* the urls dict _process_one builds from the resolved packages
RECURSIVE DepUrls(_, _)
DepUrls(baseurl, deps) ==
    IF deps = <<>> THEN Empty
    ELSE (Last(deps).checksum :> (baseurl \o "/" \o Last(deps).path))
         @@ DepUrls(baseurl, Front(deps))

\* MppDepsolve._process_one after _dnf_resolve returned deps
DepsolveApply(h, links, todo, deps) ==
    LET options == h[todo]["options"]
        baseurl == h[options]["mpp-depsolve"]["baseurl"]
        packages == IF "packages" \in DOMAIN h[options]
                    THEN h[options]["packages"] ELSE <<>>
        h1 == IF deps = <<>> THEN h
              ELSE SetItem(h, options, "packages",
                           packages \o [i \in DOMAIN deps |-> deps[i].checksum])
        h2 == UpdateUrls(h1, links, DepUrls(baseurl, deps))
    IN DelItem(h2, options, "mpp-depsolve")

(***************************************************************************)
(* MppPipelineBase                                                         *)
(***************************************************************************)
\* MppPipelineBase._collect
RECURSIVE PipelineBaseCollect(_, _)
PipelineBaseCollect(h, lvls) ==
    IF lvls = <<>> THEN <<>>
    ELSE (IF /\ "pipeline" \in DOMAIN h[Head(lvls)]
             /\ "mpp-pipeline-base" \in DOMAIN h[h[Head(lvls)]["pipeline"]]
          THEN <<h[Head(lvls)]["pipeline"]>> ELSE <<>>)
         \o PipelineBaseCollect(h, Tail(lvls))

\* the test for conflicting build pipelines: todo.get("build") and
\* imp.data.get("build")
BuildConflict(h, todo, impData) ==
    Truthy(h, GetRef(h, todo, "build")) /\ Truthy(h, GetRef(h, impData, "build"))

\* _process_one, "Import the build-pipeline"
ImportBuild(h, todo, impData) ==
    IF Truthy(h, GetRef(h, impData, "build"))
    THEN SetItem(h, todo, "build", h[impData]["build"])
    ELSE h

\* _process_one, "Rebase stages on the imported pipeline"
RebaseStages(h, todo, stages) ==
    IF stages # <<>>
    THEN SetItem(Append(h, stages), todo, ListKey, Len(h) + 1)
    ELSE h

\* Mutant of RebasedStages: the imported stages are put behind the importer's.
RebasedStagesBehind(h, todo, impStages) ==
    (IF ListKey \in DOMAIN h[todo] THEN h[h[todo][ListKey]] ELSE <<>>) \o h[impStages]

\* imp.links["stages"] + todo.get("stages", [])
RebasedStages(h, todo, impStages) ==
    h[impStages] \o (IF ListKey \in DOMAIN h[todo] THEN h[h[todo][ListKey]] ELSE <<>>)

\* Mutant of PipelineBaseRewrite: the annotation stays on the pipeline.
PipelineBaseKeepsAnnotation(u, todo, imp) ==
    IF u.exc # None THEN u
    ELSE [h |-> RebaseStages(ImportBuild(u.h, todo, imp.data), todo,
                             RebasedStages(u.h, todo, imp.links["stages"])),
          exc |-> None]

\* _process_one from "Import the build-pipeline" on, update_sources having
\* returned u
PipelineBaseRewrite(u, todo, imp) ==
    IF u.exc # None THEN u
    ELSE [h |-> DelItem(RebaseStages(ImportBuild(u.h, todo, imp.data), todo,
                                     RebasedStages(u.h, todo, imp.links["stages"])),
                        todo, "mpp-pipeline-base"),
          exc |-> None]

\* _process_one once the import imp is loaded
PipelineBaseImported(imp, links, todo, order) ==
    IF imp.exc # None THEN [h |-> imp.h, exc |-> imp.exc]
    ELSE IF BuildConflict(imp.h, todo, imp.data)
    THEN [h |-> imp.h, exc |-> "ValueError(Importing conflicting build pipelines)"]
    ELSE PipelineBaseRewrite(UpdateSources(imp.h, links, imp.links["sources"], order),
                             todo, imp)

\* MppPipelineBase._process_one on the pipeline at reference todo, the
\* sources of the import listing their keys in this order: [h, exc]
PipelineBaseApply(h, links, todo, order) ==
    PipelineBaseImported(ImportManifest(h, h[todo]["mpp-pipeline-base"]),
                         links, todo, order)

(***************************************************************************)
(* MppPipelineImport                                                       *)
(***************************************************************************)
\* Mutant of PipelineImportCollect: only the root is looked at.
PipelineImportCollectRoot(h, lvls) ==
    SelectSeq(SubSeq(lvls, 1, 1), LAMBDA itr : "mpp-pipeline-import" \in DOMAIN h[itr])

\* MppPipelineImport._collect
PipelineImportCollect(h, lvls) ==
    SelectSeq(lvls, LAMBDA itr : "mpp-pipeline-import" \in DOMAIN h[itr])

\* Mutant of PipelineImportRewrite: a node that has a pipeline keeps it.
PipelineImportKeepsOld(u, todo, imp) ==
    IF u.exc # None THEN u
    ELSE [h |-> DelItem(IF "pipeline" \in DOMAIN u.h[todo] THEN u.h
                        ELSE SetItem(u.h, todo, "pipeline", imp.links["pipeline"]),
                        todo, "mpp-pipeline-import"),
          exc |-> None]

\* _process_one from "Import pipeline" on, update_sources having returned u
PipelineImportRewrite(u, todo, imp) ==
    IF u.exc # None THEN u
    ELSE [h |-> DelItem(SetItem(u.h, todo, "pipeline", imp.links["pipeline"]),
                        todo, "mpp-pipeline-import"),
          exc |-> None]

\* _process_one once the import imp is loaded
PipelineImportImported(imp, links, todo, order) ==
    IF imp.exc # None THEN [h |-> imp.h, exc |-> imp.exc]
    ELSE PipelineImportRewrite(
             UpdateSources(imp.h, links, imp.links["sources"], order), todo, imp)

\* MppPipelineImport._process_one on the level at reference todo: [h, exc]
PipelineImportApply(h, links, todo, order) ==
    PipelineImportImported(ImportManifest(h, h[todo]["mpp-pipeline-import"]),
                           links, todo, order)

\* the orders in which the sources dict of the file at path may list its
\* kinds once loaded: those of the document in any order, then
\* org.osbuild.files if refresh() had to enter it
SourceOrders(path) ==
    IF path \in DOMAIN Files /\ "sources" \in DOMAIN Files[path]
    THEN LET own == DOMAIN Files[path]["sources"]
         IN {o \o (IF "org.osbuild.files" \in own THEN <<>> ELSE <<"org.osbuild.files">>) :
                o \in Orders(own)}
    ELSE {<<"org.osbuild.files">>}

(***************************************************************************)
(* Mpp: __enter__ and run()                                                *)
(***************************************************************************)
\* procs of Mpp.run
procs == <<"MppDepsolve", "MppPipelineBase", "MppPipelineImport">>

\* Mpp.__enter__: Manifest.from_stream(sys.stdin); run() up to the first
\* pass of the first round
MppEnter ==
    /\ mpc = "enter"
    /\ LET l == LoadDict(<<>>, input)
           r == Refresh(l.h, l.v)
       IN /\ heap' = r.h
          /\ mData' = l.v
          /\ mLinks' = r.links
          /\ mLevels' = r.levels
          /\ IF r.exc = None
             THEN /\ mpc' = "collect"
                  /\ UNCHANGED raised
             ELSE /\ mpc' = "error"
                  /\ raised' = r.exc
    /\ procIdx' = 1
    /\ progress' = FALSE
    /\ rounds' = 1
    /\ reports' = <<>>
    /\ UNCHANGED <<input, todos, worked, run, output, firstOutput>>
    /\ UNCHANGED storeVars
    /\ UNCHANGED collectVars

\* proc(self).process(), the call of _collect
Collect(proc, h, lvls) ==
    IF proc = "MppDepsolve" THEN DepsolveCollect(h, lvls)
    ELSE IF proc = "MppPipelineBase" THEN PipelineBaseCollect(h, lvls)
    ELSE PipelineImportCollect(h, lvls)

PassCollect ==
    /\ mpc = "collect"
    /\ todos' = Collect(procs[procIdx], heap, mLevels)
    /\ worked' = (todos' # <<>>)
    /\ mpc' = "apply"
    /\ UNCHANGED <<input, heap, mData, mLinks, mLevels, procIdx, progress, rounds, run,
                   output, firstOutput, raised, reports>>
    /\ UNCHANGED storeVars
    /\ UNCHANGED collectVars

\* Mutant of MppRaise: the exception is noted and the pass goes on.
MppRaiseSwallowed(e) ==
    /\ mpc' = mpc
    /\ raised' = e

\* an exception leaves the pass, run() and the process
MppRaise(e) ==
    /\ mpc' = "error"
    /\ raised' = e

\* MppDepsolve.process, one round of `for todo in todos`
DepsolveProcessOne ==
    /\ mpc = "apply"
    /\ procs[procIdx] = "MppDepsolve"
    /\ todos # <<>>
    /\ LET todo == Head(todos)
           options == heap[heap[todo]["options"]]["mpp-depsolve"]
       IN \/ /\ Len(OptPackages(options)) > 0
             /\ MppRaise("DnfError")
             /\ UNCHANGED <<heap, todos>>
          \/ /\ \E tx \in Transactions :
                   heap' = DepsolveApply(heap, mLinks, todo, DnfResolve(options, tx))
             /\ todos' = Tail(todos)
             /\ UNCHANGED <<mpc, raised>>
    /\ UNCHANGED <<input, mData, mLinks, mLevels, procIdx, progress, worked, rounds, run,
                   output, firstOutput, reports>>
    /\ UNCHANGED storeVars
    /\ UNCHANGED collectVars

\* MppPipelineBase.process, one round of `for todo in todos`
PipelineBaseProcessOne ==
    /\ mpc = "apply"
    /\ procs[procIdx] = "MppPipelineBase"
    /\ todos # <<>>
    /\ \E order \in SourceOrders(heap[Head(todos)]["mpp-pipeline-base"]) :
          LET r == PipelineBaseApply(heap, mLinks, Head(todos), order)
          IN /\ heap' = r.h
             /\ IF r.exc = None
                THEN /\ todos' = Tail(todos)
                     /\ UNCHANGED <<mpc, raised>>
                ELSE /\ MppRaise(r.exc)
                     /\ UNCHANGED todos
    /\ UNCHANGED <<input, mData, mLinks, mLevels, procIdx, progress, worked, rounds, run,
                   output, firstOutput, reports>>
    /\ UNCHANGED storeVars
    /\ UNCHANGED collectVars

\* MppPipelineImport.process, one round of `for todo in todos`
PipelineImportProcessOne ==
    /\ mpc = "apply"
    /\ procs[procIdx] = "MppPipelineImport"
    /\ todos # <<>>
    /\ \E order \in SourceOrders(heap[Head(todos)]["mpp-pipeline-import"]) :
          LET r == PipelineImportApply(heap, mLinks, Head(todos), order)
          IN /\ heap' = r.h
             /\ IF r.exc = None
                THEN /\ todos' = Tail(todos)
                     /\ UNCHANGED <<mpc, raised>>
                ELSE /\ MppRaise(r.exc)
                     /\ UNCHANGED todos
    /\ UNCHANGED <<input, mData, mLinks, mLevels, procIdx, progress, worked, rounds, run,
                   output, firstOutput, reports>>
    /\ UNCHANGED storeVars
    /\ UNCHANGED collectVars

\* Mutant of LoopAgain: the loop of run() ends after its first round.
LoopOnce(prog) == FALSE

\* whether the loop of run() goes round again
LoopAgain(prog) == prog

\* Mutant of PassReturn: progress is noted and the manifest is not refreshed.
PassReturnStale ==
    /\ mpc = "apply"
    /\ todos = <<>>
    /\ IF worked
       THEN /\ progress' = TRUE
            /\ UNCHANGED <<heap, mLinks, mLevels>>
       ELSE UNCHANGED <<progress, heap, mLinks, mLevels>>
    /\ IF procIdx < Len(procs)
       THEN /\ procIdx' = procIdx + 1
            /\ mpc' = "collect"
       ELSE /\ mpc' = "while"
            /\ UNCHANGED procIdx
    /\ reports' = Append(reports, worked)
    /\ UNCHANGED <<input, mData, todos, worked, rounds, run, output, firstOutput, raised>>
    /\ UNCHANGED storeVars
    /\ UNCHANGED collectVars

\* process() returns len(todos) > 0; on True: progress = True and
\* self._manifest.refresh(); then the for loop goes on or ends
PassReturn ==
    /\ mpc = "apply"
    /\ todos = <<>>
    /\ IF worked
       THEN LET r == Refresh(heap, mData)
            IN /\ progress' = TRUE
               /\ heap' = r.h
               /\ mLinks' = r.links
               /\ mLevels' = r.levels
       ELSE UNCHANGED <<progress, heap, mLinks, mLevels>>
    /\ IF procIdx < Len(procs)
       THEN /\ procIdx' = procIdx + 1
            /\ mpc' = "collect"
       ELSE /\ mpc' = "while"
            /\ UNCHANGED procIdx
    /\ reports' = Append(reports, worked)
    /\ UNCHANGED <<input, mData, todos, worked, rounds, run, output, firstOutput, raised>>
    /\ UNCHANGED storeVars
    /\ UNCHANGED collectVars

\* `while progress:` holds: progress = False and the for loop starts over
NextRound ==
    /\ mpc = "while"
    /\ LoopAgain(progress)
    /\ rounds < MaxRounds
    /\ progress' = FALSE
    /\ procIdx' = 1
    /\ rounds' = rounds + 1
    /\ reports' = <<>>
    /\ mpc' = "collect"
    /\ UNCHANGED <<input, heap, mData, mLinks, mLevels, todos, worked, run, output,
                   firstOutput, raised>>
    /\ UNCHANGED storeVars
    /\ UNCHANGED collectVars

\* `while progress:` fails: self._manifest.to_stream(sys.stdout); return 0
Serialize ==
    /\ mpc = "while"
    /\ ~LoopAgain(progress)
    /\ output' = <<Strip(heap, mData)>>
    /\ mpc' = "done"
    /\ UNCHANGED <<input, heap, mData, mLinks, mLevels, procIdx, progress, todos, worked,
                   rounds, run, firstOutput, raised, reports>>
    /\ UNCHANGED storeVars
    /\ UNCHANGED collectVars

\* the output of the first run is fed to a second run
Rerun ==
    /\ mpc = "done"
    /\ run = 1
    /\ input' = output[1]
    /\ firstOutput' = output
    /\ output' = <<>>
    /\ run' = 2
    /\ mpc' = "enter"
    /\ heap' = <<>>
    /\ mData' = 0
    /\ mLinks' = Empty
    /\ mLevels' = <<>>
    /\ procIdx' = 0
    /\ progress' = FALSE
    /\ rounds' = 0
    /\ reports' = <<>>
    /\ UNCHANGED <<todos, worked, raised>>
    /\ UNCHANGED storeVars
    /\ UNCHANGED collectVars

\* manifests with a key no schema knows: at the root, in the pipeline, in
\* sources, in the files source, in a build level, in its pipeline
UnknownKeyInputs ==
    {"bogus" :> "x",
     "pipeline" :> ("bogus" :> "x"),
     "sources" :> ("bogus" :> "x"),
     "sources" :> ("org.osbuild.files" :> ("bogus" :> "x")),
     "pipeline" :> ("build" :> ("bogus" :> "x" @@ "runner" :> "org.osbuild.f38")),
     "pipeline" :> ("build" :> ("pipeline" :> ("bogus" :> "x") @@
                                "runner" :> "org.osbuild.f38"))}

\* manifests whose only unknown keys are annotations no pass consumes
NoteInputs ==
    {"mpp-note" :> "x" @@ "pipeline" :> ("mpp-note" :> "x" @@ "stages" :> <<StagePlain>>),
     "sources" :> ("mpp-note" :> "x" @@ "org.osbuild.files" :> ("mpp-note" :> "x"))}

\* manifests that spell out empty containers, at the cached links and below
DefaultedInputs ==
    {"pipeline" :> Empty,
     "pipeline" :> ("stages" :> <<>>) @@
        "sources" :> ("org.osbuild.files" :> ("urls" :> Empty)),
     "sources" :> ("org.osbuild.files" :> Empty),
     "sources" :> Empty @@ "pipeline" :> ("stages" :> <<StagePlain>>),
     "pipeline" :> ("build" :> Empty),
     "pipeline" :> ("stages" :> <<>> @@
                    "build" :> ("runner" :> "org.osbuild.f38" @@
                                "pipeline" :> ("stages" :> <<>>)))}

\* manifests that are themselves files other files import
CycleInputs ==
    {Files[f] : f \in {"cycA.json", "cycB.json", "fragA.json", "fragB.json",
                       "nestA.json", "nestB.json"}}

Inputs ==
    PlainInputs \cup UnknownKeyInputs \cup NoteInputs \cup DefaultedInputs \cup CycleInputs

MppInit ==
    /\ input \in Inputs
    /\ heap = <<>>
    /\ mData = 0
    /\ mLinks = Empty
    /\ mLevels = <<>>
    /\ mpc = "enter"
    /\ procIdx = 0
    /\ progress = FALSE
    /\ todos = <<>>
    /\ worked = FALSE
    /\ reports = <<>>
    /\ rounds = 0
    /\ run = 1
    /\ output = <<>>
    /\ firstOutput = <<>>
    /\ raised = None
    \* the store with no process at work
    /\ dir = [d \in Dirs |-> Empty]
    /\ byTag = Empty
    /\ tampered = FALSE
    /\ kind = [p \in Procs |-> "prefetch"]
    /\ items = [p \in Procs |-> <<>>]
    /\ pc = [p \in Procs |-> "done"]
    /\ result = [p \in Procs |-> "ok"]
    /\ ctx = [p \in Procs |-> NoCtx]
    /\ touched = [p \in Procs |-> {}]
    /\ started = [p \in Procs |-> {}]
    \* no _collect at work
    /\ argv = <<>>
    /\ cidx = 0
    /\ collected = Empty
    /\ cpc = "idle"
    /\ craised = None

MppNext ==
    \/ MppEnter
    \/ PassCollect
    \/ DepsolveProcessOne
    \/ PipelineBaseProcessOne
    \/ PipelineImportProcessOne
    \/ PassReturn
    \/ NextRound
    \/ Serialize
    \/ Rerun

SpecMpp == MppInit /\ [][MppNext]_vars

\* Mpp.run goes on: entering, a pass' collect and its return, the test of
\* the while loop and the serialisation each come to pass once they are up
\* (a loop stopped at the bound MaxRounds is not continued)
RunAdvances ==
    \/ mpc = "enter" /\ mpc' \in {"collect", "error"}
    \/ mpc = "collect" /\ mpc' = "apply"
    \/ mpc = "apply" /\ todos = <<>> /\ mpc' \in {"collect", "while"}
    \/ mpc = "while" /\ LoopAgain(progress) /\ rounds < MaxRounds /\ mpc' = "collect"
    \/ mpc = "while" /\ ~LoopAgain(progress) /\ mpc' = "done"
    \/ mpc = "done" /\ run = 1 /\ mpc' = "enter"

\* the for loop of a pass' process goes on to the next entry it collected
TodoAdvances == mpc = "apply" /\ todos # <<>> /\ todos' = Tail(todos)

\* the process is scheduled and every call it waits for returns or raises:
\* the driver always takes its next step
SpecMppFair == SpecMpp /\ WF_mpc(RunAdvances) /\ WF_todos(TodoAdvances)

(***************************************************************************)
(* mdb prefetch: MdbPrefetch._collect                                      *)
(***************************************************************************)
MaxPaths == 3

\* the manifests the command line may name
PrefetchFiles ==
    "plain.json" :> ("pipeline" :> Empty) @@
    "one.json" :> ("sources" :> UrlsOf("sha256:aa", "https://one/aa")) @@
    "two.json" :>
        ("sources" :> ("org.osbuild.files" :>
            ("urls" :> ("sha256:aa" :> "https://two/aa" @@ "sha256:bb" :> "https://two/bb")))) @@
    "nourls.json" :> ("sources" :> ("org.osbuild.files" :> Empty)) @@
    "curl.json" :>
        ("sources" :> (UrlsOf("sha256:bb", "https://curl/bb") @@ "org.osbuild.curl" :> Empty))

\* args.get("urls", {})
ArgsUrls(args) == IF "urls" \in DOMAIN args THEN args["urls"] ELSE Empty

\* sources[kind]["urls"].update(urls)
CollectUpdate(urls, new) == new @@ urls

\* _collect, `for kind, args in src.items()`, the dict listing its keys in
\* this order: [urls, exc]
RECURSIVE CollectKinds(_, _, _)
CollectKinds(urls, src, order) ==
    IF order = <<>> THEN [urls |-> urls, exc |-> None]
    ELSE IF Head(order) = "org.osbuild.files"
         THEN CollectKinds(CollectUpdate(urls, ArgsUrls(src[Head(order)])), src, Tail(order))
         ELSE [urls |-> urls, exc |-> "ValueError(Unsupported source type)"]

\* data.get("sources", {})
DataSources(doc) == IF "sources" \in DOMAIN doc THEN doc["sources"] ELSE Empty

CollectInit ==
    /\ argv \in UNION {[1..n -> DOMAIN PrefetchFiles \cup Garbage \cup {Missing}] :
                          n \in 1..MaxPaths}
    /\ cidx = 1
    /\ collected = Empty
    /\ cpc = "loop"
    /\ craised = None
    \* the store with no process at work
    /\ dir = [d \in Dirs |-> Empty]
    /\ byTag = Empty
    /\ tampered = FALSE
    /\ kind = [p \in Procs |-> "prefetch"]
    /\ items = [p \in Procs |-> <<>>]
    /\ pc = [p \in Procs |-> "done"]
    /\ result = [p \in Procs |-> "ok"]
    /\ ctx = [p \in Procs |-> NoCtx]
    /\ touched = [p \in Procs |-> {}]
    /\ started = [p \in Procs |-> {}]
    \* no pre-processor at work
    /\ input = Empty
    /\ heap = <<>>
    /\ mData = 0
    /\ mLinks = Empty
    /\ mLevels = <<>>
    /\ mpc = "idle"
    /\ procIdx = 0
    /\ progress = FALSE
    /\ todos = <<>>
    /\ worked = FALSE
    /\ reports = <<>>
    /\ rounds = 0
    /\ run = 0
    /\ output = <<>>
    /\ firstOutput = <<>>
    /\ raised = None

\* _collect, one round of `for itr in self._mdb.args.PATH`
CollectOne ==
    /\ cpc = "loop"
    /\ cidx <= Len(argv)
    /\ IF argv[cidx] \in Garbage
       THEN cpc' = "failed" /\ craised' = "JSONDecodeError" /\ UNCHANGED <<cidx, collected>>
       ELSE IF argv[cidx] \notin DOMAIN PrefetchFiles
       THEN cpc' = "failed" /\ craised' = "OSError" /\ UNCHANGED <<cidx, collected>>
       ELSE \E order \in Orders(DOMAIN DataSources(PrefetchFiles[argv[cidx]])) :
               LET r == CollectKinds(collected, DataSources(PrefetchFiles[argv[cidx]]), order)
               IN /\ collected' = r.urls
                  /\ IF r.exc = None
                     THEN cidx' = cidx + 1 /\ UNCHANGED <<cpc, craised>>
                     ELSE cpc' = "failed" /\ craised' = r.exc /\ UNCHANGED cidx
    /\ UNCHANGED argv
    /\ UNCHANGED storeVars
    /\ UNCHANGED mppVars

\* _collect: return sources
CollectReturn ==
    /\ cpc = "loop"
    /\ cidx > Len(argv)
    /\ cpc' = "done"
    /\ UNCHANGED <<argv, cidx, collected, craised>>
    /\ UNCHANGED storeVars
    /\ UNCHANGED mppVars

CollectNext == CollectOne \/ CollectReturn

\* the merging of sources: in a run of osbuild-mpp, or in _collect of mdb
\* prefetch
SourcesInit == MppInit \/ CollectInit

SourcesNext == MppNext \/ CollectNext

SpecSources == SourcesInit /\ [][SourcesNext]_vars

(***************************************************************************)
(* Properties of the store.                                                *)
(***************************************************************************)
Finished(p) == pc[p] \in {"done", "failed"}

\* the name directory d gives to content with digest h
NameIn(d, h) == IF d = FilesDir THEN FilesName(h) ELSE ChecksumName(h)

\* the entry under name n of directory d is complete and hashes to its name
Matches(d, n) ==
    /\ n \in DOMAIN dir[d]
    /\ dir[d][n].whole
    /\ NameIn(d, Digest(dir[d][n].data)) = n

\* C1: when the writer fails before ctx["name"] is set (download error,
\* checksum mismatch, non-zero exit status of the subprocess), the failing
\* step leaves every directory as it was, and the process created or
\* removed no entry for the item it failed on.
C1_WriterFailurePublishesNothing ==
    /\ [](\A p \in Procs : result[p] \in WriterFailures => touched[p] = {})
    /\ [][\A p \in Procs :
            (result[p] = "running" /\ result'[p] \in WriterFailures)
                => (dir' = dir /\ byTag' = byTag)]_vars

\* C1 witness: a subprocess failed on the second document of a batch, after
\* the first one was published.
C1_Witness ==
    \E p \in Procs :
        /\ result[p] = "MppFailed"
        /\ Len(items[p]) = 1
        /\ dir[ByChecksumDir] # Empty

\* C2: as long as nothing but this program modifies the store, every entry
\* of a store directory is complete and its content hashes to its name.
C2_StoreIntegrity ==
    ~tampered => \A d \in Dirs : \A n \in DOMAIN dir[d] : Matches(d, n)

\* C2 witness: both checksums are in the cache, after one process failed on
\* a checksum mismatch and the other one finished.
C2_Witness ==
    /\ ~tampered
    /\ DOMAIN dir[FilesDir] = Checksums
    /\ \E p, q \in Procs : result[p] = "ChecksumMismatch" /\ result[q] = "ok"

\* C3: once two processes that both ran the publish steps for the same name
\* in the same directory have finished, the directory has an entry under
\* that name, and (unless the store was tampered with) it matches the name.
C3_RacingPublishesLeaveEntry ==
    \A p, q \in Procs :
        (p # q /\ Finished(p) /\ Finished(q)) =>
            \A x \in started[p] \cap started[q] :
                /\ x[2] \in DOMAIN dir[x[1]]
                /\ ~tampered => Matches(x[1], x[2])

\* C3 witness: both finished after publishing the same name, and their
\* unlink and link steps overlapped (one link found the name taken).
C3_Witness ==
    \E p, q \in Procs :
        /\ p # q /\ Finished(p) /\ Finished(q)
        /\ started[p] \cap started[q] # {}
        /\ result[q] = "FileExistsError(link)"

\* C4 (as claimed): no publish fails because of another writer, that is, no
\* os.link of the publish steps ever finds the name taken.
C4_NoPublishFailsOnRace ==
    \A p \in Procs : result[p] # "FileExistsError(link)"

\* C5: when prefetch opens a cached entry whose content does not hash to
\* the expected checksum, that step fails with "Wrong checksum": the url is
\* not downloaded, the entry is left alone and the item is not passed over.
C5_CacheHitVerification ==
    [][\A p \in Procs :
        (/\ kind[p] = "prefetch"
         /\ pc[p] = "cached"
         /\ pc'[p] # "cached"
         /\ Head(items[p]) \in DOMAIN dir[FilesDir]
         /\ FilesName(Digest(dir[FilesDir][Head(items[p])].data)) # Head(items[p]))
        => (/\ pc'[p] = "failed"
            /\ result'[p] = "WrongChecksum"
            /\ items'[p] = items[p]
            /\ dir' = dir)]_vars

\* C5 witness: a prefetch ended on a corrupt cached entry.
C5_Witness ==
    \E p \in Procs : result[p] = "WrongChecksum" /\ pc[p] = "failed" /\ tampered

\* C6: when the downloaded stream ends and its digest is not the expected
\* checksum, prefetch fails with "Checksum mismatch" and leaves the
\* directory alone; a prefetch only ever runs the publish steps with the
\* expected checksum as name, for content that hashes to it.
C6_PostFetchVerification ==
    /\ [](\A p \in Procs :
            /\ result[p] = "ChecksumMismatch" => touched[p] = {}
            /\ (kind[p] = "prefetch" /\ pc[p] \in {"unlink", "link"}) =>
                  /\ ctx[p].name = Head(items[p])
                  /\ FilesName(Digest(ctx[p].tmp)) = Head(items[p]))
    /\ [][\A p \in Procs :
            (/\ kind[p] = "prefetch"
             /\ pc[p] = "stream"
             /\ pc'[p] # "stream"
             /\ ctx[p].stream = <<>>
             /\ FilesName(Digest(ctx[p].tmp)) # Head(items[p]))
            => (/\ result'[p] = "ChecksumMismatch"
                /\ dir' = dir)]_vars

\* C6 witness: a download of the wrong content ended in a checksum mismatch
\* while the cache held other entries.
C6_Witness ==
    \E p \in Procs :
        /\ result[p] = "ChecksumMismatch"
        /\ dir[FilesDir] # Empty
        /\ Head(items[p]) \notin DOMAIN dir[FilesDir]

(***************************************************************************)
(* Properties of the pre-processor.                                        *)
(***************************************************************************)
\* every pass of the round under way has returned, and returned False
Quiet == Len(reports) = Len(procs) /\ \A i \in DOMAIN reports : ~reports[i]

\* stage st of a document is what MppDepsolve is after
DocDepsolveStage(st) ==
    /\ "name" \in DOMAIN st
    /\ st["name"] = RpmStage
    /\ "options" \in DOMAIN st
    /\ "mpp-depsolve" \in DOMAIN st["options"]

\* some level of the build chain of a document, from level on, holds an
\* annotation that a pass consumes
RECURSIVE DocAnnotated(_)
DocAnnotated(level) ==
    \/ "mpp-pipeline-import" \in DOMAIN level
    \/ /\ "pipeline" \in DOMAIN level
       /\ \/ "mpp-pipeline-base" \in DOMAIN level["pipeline"]
          \/ /\ ListKey \in DOMAIN level["pipeline"]
             /\ \E i \in DOMAIN level["pipeline"][ListKey] :
                   DocDepsolveStage(level["pipeline"][ListKey][i])
          \/ /\ "build" \in DOMAIN level["pipeline"]
             /\ DocAnnotated(level["pipeline"]["build"])

\* C7: Mpp.run leaves its loop exactly at the end of the first round in
\* which all three passes, in the order Depsolve, PipelineBase,
\* PipelineImport, returned False: it writes its output only then, and after
\* such a round it does nothing else; the manifest written holds at no level
\* of its build chain an annotation that a pass collects.
C7_StopsAtFirstQuietRound ==
    /\ [](mpc = "done" => (Quiet /\ ~DocAnnotated(output[1])))
    /\ [][(mpc # "done" /\ mpc' = "done") => (mpc = "while" /\ Quiet)]_vars
    /\ [][(mpc = "while" /\ Quiet) => mpc' = "done"]_vars

\* a run that converged in its third round
C7_Witness == mpc = "done" /\ run = 1 /\ rounds = 3 /\ Quiet

\* C8: a second run, fed the output of a converged run, ends without an
\* exception, its passes all return False in its one and only round, and it
\* writes the very document it read.
C8_SecondRunIdempotent ==
    run = 2 =>
        /\ mpc # "error"
        /\ ~progress
        /\ rounds <= 1
        /\ \A i \in DOMAIN reports : ~reports[i]
        /\ mpc = "done" => (rounds = 1 /\ Quiet /\ output = firstOutput /\ output = <<input>>)

\* the second run is through, on a manifest the first run resolved packages
\* for and imported stages into
C8_Witness ==
    /\ run = 2
    /\ mpc = "done"
    /\ "sources" \in DOMAIN output[1]
    /\ "org.osbuild.files" \in DOMAIN output[1]["sources"]
    /\ "urls" \in DOMAIN output[1]["sources"]["org.osbuild.files"]
    /\ "sha256:bb" \in DOMAIN output[1]["sources"]["org.osbuild.files"]["urls"]
    /\ output[1]["sources"]["org.osbuild.files"]["urls"]["sha256:bb"] =
          "https://example/repo/Packages/bash.rpm"

\* C9: a run gets past loading its input only if the manifest passes the
\* sanity tests of refresh(): no key outside the recognized ones, other than
\* mpp- keys, at the root, in the pipeline, in sources, in the files source
\* and in the levels of the build chain.  (The code computes the tests and
\* drops what they return.)
C9_UnknownKeysRejected ==
    (mpc = "collect" /\ rounds = 1 /\ procIdx = 1) =>
        RefreshSane(heap, mLinks, mLevels, mData)

\* the imported file at path defines a nested build pipeline
DefinesBuild(path) ==
    /\ path \in DOMAIN Files
    /\ "pipeline" \in DOMAIN Files[path]
    /\ "build" \in DOMAIN Files[path]["pipeline"]
    /\ Files[path]["pipeline"]["build"] # Empty

\* C10: a base import into a pipeline that has a nested build pipeline, of a
\* document that defines a nested build pipeline too, raises the conflict
\* error.  (The code looks for the build pipeline of the import at the root
\* of the document, where no manifest has one.)
C10_ConflictingBuildsRejected ==
    [][(/\ mpc = "apply"
        /\ procs[procIdx] = "MppPipelineBase"
        /\ todos # <<>>
        /\ Truthy(heap, GetRef(heap, Head(todos), "build"))
        /\ DefinesBuild(heap[Head(todos)]["mpp-pipeline-base"]))
       => raised' = "ValueError(Importing conflicting build pipelines)"]_vars

(***************************************************************************)
(* Properties of the passes.                                               *)
(***************************************************************************)
\* MppPipelineBase is about to process its next todo
BaseStep == mpc = "apply" /\ procs[procIdx] = "MppPipelineBase" /\ todos # <<>>

\* MppPipelineImport is about to process its next todo
ImportStep == mpc = "apply" /\ procs[procIdx] = "MppPipelineImport" /\ todos # <<>>

\* MppDepsolve is about to process its next todo
DepsolveStep == mpc = "apply" /\ procs[procIdx] = "MppDepsolve" /\ todos # <<>>

\* the step processes the todo without an exception
Processed == todos' = Tail(todos) /\ raised' = None

\* the stages of the pipeline at reference pl, as documents
StageDocs(h, pl) ==
    IF ListKey \in DOMAIN h[pl]
    THEN [i \in DOMAIN h[h[pl][ListKey]] |-> DumpDict(h, h[h[pl][ListKey]][i])]
    ELSE <<>>

\* the pipeline of the file at path, and its stages
FilePipeline(path) ==
    IF "pipeline" \in DOMAIN Files[path] THEN Files[path]["pipeline"] ELSE Empty
FileStages(path) ==
    IF ListKey \in DOMAIN FilePipeline(path) THEN FilePipeline(path)[ListKey] ELSE <<>>

\* C11: a base import into a pipeline without a nested build pipeline, of a
\* document that defines one, raises nothing and leaves the importing
\* pipeline with the build pipeline of the imported document.  (The code
\* looks for the build pipeline of the import at the root of the document:
\* the import succeeds and adopts nothing.)
C11_ImportedBuildAdopted ==
    [][(/\ BaseStep
        /\ ~Truthy(heap, GetRef(heap, Head(todos), "build"))
        /\ DefinesBuild(heap[Head(todos)]["mpp-pipeline-base"]))
       => /\ Processed
          /\ "build" \in DOMAIN heap'[Head(todos)]
          /\ DumpDict(heap', heap'[Head(todos)]["build"]) =
                FilePipeline(heap[Head(todos)]["mpp-pipeline-base"])["build"]]_vars

\* C12: a base import that succeeds leaves the importing pipeline with the
\* stages of the imported document followed by the stages it had, each group
\* as it was, and without its mpp-pipeline-base annotation.
C12_ImportedStagesFirst ==
    [][(BaseStep /\ Processed)
       => /\ StageDocs(heap', Head(todos)) =
                FileStages(heap[Head(todos)]["mpp-pipeline-base"])
                \o StageDocs(heap, Head(todos))
          /\ "mpp-pipeline-base" \notin DOMAIN heap'[Head(todos)]]_vars

\* the base pass of the first round is through: the root pipeline holds the
\* stage of base.json ahead of its own
C12_Witness ==
    /\ mpc = "apply"
    /\ procs[procIdx] = "MppPipelineBase"
    /\ todos = <<>>
    /\ worked
    /\ "mpp-pipeline-base" \notin DOMAIN heap[mLinks["pipeline"]]
    /\ StageDocs(heap, heap[mData]["pipeline"]) = <<StageRpm, StagePlain>>

\* the urls of the file at path
FileUrls(path) ==
    IF /\ "sources" \in DOMAIN Files[path]
       /\ "org.osbuild.files" \in DOMAIN Files[path]["sources"]
       /\ "urls" \in DOMAIN Files[path]["sources"]["org.osbuild.files"]
    THEN Files[path]["sources"]["org.osbuild.files"]["urls"]
    ELSE Empty

\* the pipeline pl of a document once loaded: refresh() has entered its stages
WithStages(pl) == IF ListKey \in DOMAIN pl THEN pl ELSE Put(pl, ListKey, <<>>)

\* what every successful fragment import does besides setting the pipeline:
\* the urls of the import are merged into those of the manifest, the
\* import's winning, and the annotation is gone from the node
ImportMergesAndClears ==
    /\ heap'[mLinks["urls"]] =
          FileUrls(heap[Head(todos)]["mpp-pipeline-import"]) @@ heap[mLinks["urls"]]
    /\ "mpp-pipeline-import" \notin DOMAIN heap'[Head(todos)]

\* C13 as claimed: a fragment import that succeeds leaves the node with
\* exactly the pipeline of the imported document, the imported urls merged
\* and the annotation removed.
C13_PipelineIsImportedDocuments ==
    [][(ImportStep /\ Processed)
       => /\ DumpDict(heap', heap'[Head(todos)]["pipeline"]) =
                FilePipeline(heap[Head(todos)]["mpp-pipeline-import"])
          /\ ImportMergesAndClears]_vars

\* C13 amended: a fragment import that succeeds leaves the node with the
\* pipeline of the imported document as loaded, that is with an empty stages
\* list entered where the document's pipeline had none, and with nothing of
\* its previous pipeline; the imported urls are merged and the annotation is
\* removed.
C13_PipelineIsImportedModels ==
    [][(ImportStep /\ Processed)
       => /\ DumpDict(heap', heap'[Head(todos)]["pipeline"]) =
                WithStages(FilePipeline(heap[Head(todos)]["mpp-pipeline-import"]))
          /\ ImportMergesAndClears]_vars

\* the import pass is through on a manifest that had stages of its own and
\* imported chain.json: its pipeline is now the one of chain.json
C13_Witness ==
    /\ mpc = "apply"
    /\ procs[procIdx] = "MppPipelineImport"
    /\ todos = <<>>
    /\ worked
    /\ run = 1
    /\ rounds = 1
    /\ "pipeline" \in DOMAIN input
    /\ ListKey \in DOMAIN input["pipeline"]
    /\ DumpDict(heap, heap[mData]["pipeline"]) = WithStages(FilePipeline("chain.json"))

\* the sets of packages the resolver may answer the annotation options with
Responses(options) ==
    IF OptPackages(options) = <<>> THEN {{}}
    ELSE {{tx[i] : i \in DOMAIN tx} : tx \in Transactions}

\* the checksums of a set of packages in the order of the checksum strings
Canonical(pkgs) == SelectSeq(ChecksumOrder, LAMBDA c : \E p \in pkgs : p.checksum = c)

\* the packages list of the options dict at reference opts
PackagesOf(h, opts) == IF "packages" \in DOMAIN h[opts] THEN h[opts]["packages"] ELSE <<>>

\* C14: when MppDepsolve has processed a stage, the stage's packages list is
\* the list it had followed by the checksums of the resolved packages in the
\* order of the checksum strings, whatever order the resolver's transaction
\* had; every resolved checksum maps to baseurl/path in the urls of the
\* manifest; the mpp-depsolve annotation is gone; nothing else of the options
\* changed.  The stage is thus a function of the set of packages resolved.
C14_DepsolveMaterializes ==
    [][(DepsolveStep /\ Processed)
       => LET opts == heap[Head(todos)]["options"]
              mpp == heap[opts]["mpp-depsolve"]
          IN \E pkgs \in Responses(mpp) :
                /\ PackagesOf(heap', opts) = PackagesOf(heap, opts) \o Canonical(pkgs)
                /\ \A p \in pkgs :
                      /\ p.checksum \in DOMAIN heap'[mLinks["urls"]]
                      /\ heap'[mLinks["urls"]][p.checksum] = mpp["baseurl"] \o "/" \o p.path
                /\ "mpp-depsolve" \notin DOMAIN heap'[opts]
                /\ \A k \in DOMAIN heap[opts] \ {"mpp-depsolve", "packages"} :
                      k \in DOMAIN heap'[opts] /\ heap'[opts][k] = heap[opts][k]]_vars

\* the depsolve pass is through: the second stage, which had a package, now
\* lists it ahead of two resolved ones
C14_Witness ==
    /\ mpc = "apply"
    /\ procs[procIdx] = "MppDepsolve"
    /\ todos = <<>>
    /\ worked
    /\ LET st == StageDocs(heap, heap[mData]["pipeline"])
       IN /\ Len(st) = 2
          /\ "packages" \in DOMAIN st[2]["options"]
          /\ "mpp-depsolve" \notin DOMAIN st[2]["options"]
          /\ st[2]["options"]["packages"] = <<"sha256:00", "sha256:aa", "sha256:bb">>

(***************************************************************************)
(* Properties of the merging of sources.                                   *)
(***************************************************************************)
\* merged is the union of the maps old and new, new winning where both have
\* an entry
LastWriteWins(merged, old, new) ==
    /\ DOMAIN merged = DOMAIN old \cup DOMAIN new
    /\ \A k \in DOMAIN merged : merged[k] = IF k \in DOMAIN new THEN new[k] ELSE old[k]

\* the urls of the manifest at path on the command line of mdb prefetch
PrefetchUrls(path) ==
    IF "org.osbuild.files" \in DOMAIN DataSources(PrefetchFiles[path])
    THEN ArgsUrls(DataSources(PrefetchFiles[path])["org.osbuild.files"])
    ELSE Empty

\* the last of the manifests argv[1..n] that has an url for checksum k
LastWith(k, n) ==
    CHOOSE i \in 1..n :
        /\ k \in DOMAIN PrefetchUrls(argv[i])
        /\ \A j \in (i + 1)..n : k \notin DOMAIN PrefetchUrls(argv[j])

\* C15: update_sources, called by either import pass, leaves the urls of the
\* manifest the union of those it had and those of the import, the import's
\* url winning for a checksum in both; and what _collect of mdb prefetch
\* returns maps every checksum that a manifest on the command line has an
\* url for to the url of the last such manifest, in argument order.
C15_LastWriteWinsUnion ==
    /\ [][((BaseStep \/ ImportStep) /\ Processed)
          => LastWriteWins(heap'[mLinks["urls"]], heap[mLinks["urls"]],
                           FileUrls(heap[Head(todos)][
                               IF BaseStep THEN "mpp-pipeline-base"
                               ELSE "mpp-pipeline-import"]))]_vars
    /\ [](cpc = "done" =>
            /\ DOMAIN collected = UNION {DOMAIN PrefetchUrls(argv[i]) : i \in DOMAIN argv}
            /\ \A k \in DOMAIN collected :
                  collected[k] = PrefetchUrls(argv[LastWith(k, Len(argv))])[k])

\* an import pass is through on a manifest that had an url for sha256:aa:
\* the url is now the one of leaf.json
C15_Witness ==
    /\ mpc = "apply"
    /\ procs[procIdx] \in {"MppPipelineBase", "MppPipelineImport"}
    /\ todos = <<>>
    /\ worked
    /\ run = 1
    /\ "sources" \in DOMAIN input
    /\ "sha256:aa" \in DOMAIN heap[mLinks["urls"]]
    /\ heap[mLinks["urls"]]["sha256:aa"] = "https://leaf/aa"

(***************************************************************************)
(* Properties of loading and serializing.                                  *)
(***************************************************************************)
\* the value of key k in document d, the empty container if d has none
Sub(d, k) == IF k \in DOMAIN d THEN d[k] ELSE Empty

\* document d with the container v at key k, or without k if v is empty
Keep(d, k, v) == IF v = Empty THEN Del(d, k) ELSE Put(d, k, v)

\* the minimal form of a document: no cached link path holds an empty
\* container
Minimal(doc) ==
    LET pipeline == Sub(doc, "pipeline")
        sources == Sub(doc, "sources")
        files == Sub(sources, "org.osbuild.files")
    IN Keep(Keep(doc, "pipeline", Keep(pipeline, "stages", Sub(pipeline, "stages"))),
            "sources",
            Keep(sources, "org.osbuild.files", Keep(files, "urls", Sub(files, "urls"))))

\* the document that link name of the model [h, links] refers to
LinkDoc(m, name) ==
    IF name = "stages"
    THEN [i \in DOMAIN m.h[m.links[name]] |-> DumpDict(m.h, m.h[m.links[name]][i])]
    ELSE DumpDict(m.h, m.links[name])

\* two loaded models agree on every link and on the levels
LinkEquivalent(m, n) ==
    /\ DOMAIN m.links = {LinkInfo[i].link : i \in DOMAIN LinkInfo}
    /\ DOMAIN n.links = DOMAIN m.links
    /\ \A name \in DOMAIN m.links : LinkDoc(m, name) = LinkDoc(n, name)
    /\ Len(m.levels) = Len(n.levels)
    /\ \A i \in DOMAIN m.levels : DumpDict(m.h, m.levels[i]) = DumpDict(n.h, n.levels[i])

\* the first run has written its output and no pass had anything to do
Unmutated == mpc = "done" /\ run = 1 /\ rounds = 1

\* C16: a manifest loaded and serialized with no pass changing it comes out
\* as its minimal form, and loading that output gives a model whose links
\* and levels equal those of the model the manifest was loaded into.
C16_StripRoundTrip ==
    /\ [](Unmutated => output = <<Minimal(input)>>)
    /\ [][(Unmutated /\ run' = 2)
          => LinkEquivalent(Refresh(LoadDict(<<>>, input').h, LoadDict(<<>>, input').v),
                            [h |-> heap, links |-> mLinks, levels |-> mLevels])]_vars

\* a manifest that spells out its empty stages and urls has come out without
\* them
C16_Witness ==
    /\ Unmutated
    /\ "pipeline" \in DOMAIN input
    /\ "stages" \in DOMAIN input["pipeline"]
    /\ input["pipeline"]["stages"] = <<>>
    /\ "sources" \in DOMAIN input
    /\ output = <<Empty>>

(***************************************************************************)
(* Properties of failing passes.                                           *)
(***************************************************************************)
\* C17: once a pass application has raised, the driver takes no further
\* step (no pass, no round, no serialization) and nothing is on its output;
\* what is on the output was written after a round in which no pass
\* reported progress.
C17_FailureStopsDriver ==
    /\ [](raised # None => (mpc = "error" /\ output = <<>>))
    /\ [](output # <<>> => (mpc = "done" /\ raised = None /\ Quiet))
    /\ [][raised # None => UNCHANGED <<mppVars>>]_vars

\* an import pass has failed on a source of unknown kind, after the depsolve
\* pass of the same round had changed the manifest
C17_Witness ==
    /\ mpc = "error"
    /\ raised = "ValueError(Unknown source type)"
    /\ reports # <<>>
    /\ reports[1]
    /\ run = 1
    /\ output = <<>>

(***************************************************************************)
(* Properties of import cycles.                                            *)
(***************************************************************************)
\* the files a document names in base import and fragment import
\* annotations, at the level given and at every build level below it
RECURSIVE DocImports(_)
DocImports(level) ==
    (IF "mpp-pipeline-import" \in DOMAIN level
     THEN {level["mpp-pipeline-import"]} ELSE {})
    \cup (IF "pipeline" \in DOMAIN level
          THEN (IF "mpp-pipeline-base" \in DOMAIN level["pipeline"]
                THEN {level["pipeline"]["mpp-pipeline-base"]} ELSE {})
               \cup (IF "build" \in DOMAIN level["pipeline"]
                     THEN DocImports(level["pipeline"]["build"]) ELSE {})
          ELSE {})

\* the files reached from those of S along at most n imports
RECURSIVE ImportsWithin(_, _)
ImportsWithin(S, n) ==
    IF n = 0 THEN S
    ELSE ImportsWithin(S \cup UNION {DocImports(Files[f]) : f \in S \cap DOMAIN Files},
                       n - 1)

\* document doc is a file that imports, directly or via a chain, a file that
\* imports it back
MutualImport(doc) ==
    \E f \in DOMAIN Files :
        /\ Files[f] = doc
        /\ f \in ImportsWithin(DocImports(doc), Cardinality(DOMAIN Files))

\* the fragment import annotation of the outermost level that has one, from
\* the level given down the build levels: the one whose pipeline the pass
\* leaves in the manifest
RECURSIVE Carried(_)
Carried(level) ==
    IF "mpp-pipeline-import" \in DOMAIN level THEN {level["mpp-pipeline-import"]}
    ELSE IF "pipeline" \in DOMAIN level /\ "build" \in DOMAIN level["pipeline"]
         THEN Carried(level["pipeline"]["build"])
         ELSE {}

\* the fragment import that comes into a manifest with the pipeline of file f
CarriedBy(f) ==
    IF f \in DOMAIN Files /\ "build" \in DOMAIN FilePipeline(f)
    THEN Carried(FilePipeline(f)["build"]) ELSE {}

\* the chain of fragment imports that starts at the files of S has more than
\* n links
RECURSIVE ChainBeyond(_, _)
ChainBeyond(S, n) ==
    /\ S # {}
    /\ n = 0 \/ ChainBeyond(UNION {CarriedBy(f) : f \in S}, n - 1)

\* document doc leads into a cycle of fragment imports that sit on a nested
\* build level of the pipelines imported
NestedImportCycle(doc) == ChainBeyond(Carried(doc), Cardinality(DOMAIN Files))

\* C18 as claimed: the driver never gets to write the output of a manifest
\* that is one of several importing each other.
C18_ImportCyclesNeverTerminate ==
    (run = 1 /\ MutualImport(input)) => mpc # "done"

\* C18 amended: a run on a manifest leading into a cycle of fragment imports
\* carried on nested build levels never gets to write its output, and every
\* round it completes ends with progress reported.
C18_NestedImportCyclesNeverTerminate ==
    (run = 1 /\ NestedImportCycle(input))
        => /\ mpc # "done"
           /\ mpc = "while" => progress

\* the third round on nestA.json has ended with progress: the manifest now
\* holds four build levels and the innermost has the annotation again
C18_Witness ==
    /\ run = 1
    /\ input = Files["nestA.json"]
    /\ mpc = "while"
    /\ rounds = 3
    /\ progress
    /\ Len(mLevels) = 5
    /\ "mpp-pipeline-import" \in DOMAIN heap[mLevels[5]]

(***************************************************************************)
(* Properties of the by-tag tree and of batches.                           *)
(***************************************************************************)
\* no process is inside _process or inside the loop body of prefetch
Quiescent == \A p \in Procs : pc[p] \in {"next", "done", "failed"}

\* the paths whose by-tag link a step creates, removes or redirects
Relinked ==
    {x \in DOMAIN byTag \cup DOMAIN byTag' :
        \/ x \notin DOMAIN byTag
        \/ x \notin DOMAIN byTag'
        \/ byTag'[x] # byTag[x]}

\* process p has linked the by-checksum entry of the document it is at
LinkedOutput(p) ==
    /\ kind[p] = "preprocess"
    /\ pc[p] \in {"bytag_unlink", "bytag_symlink"}
    /\ <<"link", ctx[p].name>> \in touched[p]

\* C19: between preprocess operations every by-tag link points at a
\* by-checksum entry that exists, is complete and hashes to its name; a link
\* changes only for the document of a process that has just linked that
\* document's output, and when _process returns, the link of its document
\* points at that output; a document whose subprocess exits non-zero gets no
\* by-checksum entry and the failure leaves by-tag as it is.
C19_ByTagMirrorsByChecksum ==
    /\ [](Quiescent => \A x \in DOMAIN byTag : Matches(ByChecksumDir, byTag[x]))
    /\ [](\A p \in Procs : result[p] = "MppFailed" => touched[p] = {})
    /\ [][/\ Relinked # {} =>
                \E p \in Procs : LinkedOutput(p) /\ Relinked = {Head(items[p])}
          /\ \A p \in Procs :
                /\ (kind[p] = "preprocess" /\ items'[p] # items[p]) =>
                      /\ LinkedOutput(p)
                      /\ Head(items[p]) \in DOMAIN byTag'
                      /\ byTag'[Head(items[p])] = ctx[p].name
                /\ (result[p] = "running" /\ result'[p] = "MppFailed") =>
                      (dir' = dir /\ byTag' = byTag)]_vars

\* the subprocess of the second document of a batch has failed; the by-tag
\* link of that document, made by an earlier operation, is there and points
\* at a matching by-checksum entry
C19_Witness ==
    /\ Quiescent
    /\ \E p \in Procs :
          /\ result[p] = "MppFailed"
          /\ Len(items[p]) = 1
          /\ Head(items[p]) \in DOMAIN byTag
          /\ Matches(ByChecksumDir, byTag[Head(items[p])])

\* the run of process p has ended with an exception
Aborted(p) == result[p] \notin {"running", "ok"}

\* the entries that a step removes from the directories or rewrites
Disturbed ==
    {x \in {<<d, n>> : d \in Dirs, n \in DOMAIN dir[FilesDir] \cup DOMAIN dir[ByChecksumDir]} :
        /\ x[2] \in DOMAIN dir[x[1]]
        /\ \/ x[2] \notin DOMAIN dir'[x[1]]
           \/ dir'[x[1]][x[2]] # dir[x[1]][x[2]]}

\* C20: the step at which an item of a batch fails changes nothing in the
\* store; the process stays at the failed item with the error as its result and
\* takes no further step, so it processes and publishes no later item; and
\* an entry of the store is only ever removed by the unlink of a process
\* that is publishing under that very name, or rewritten from outside.
C20_BatchFailureFrame ==
    /\ [](\A p \in Procs : Aborted(p) => (pc[p] = "failed" /\ items[p] # <<>>))
    /\ [][\A p \in Procs :
            /\ (~Aborted(p) /\ Aborted(p)') =>
                  /\ dir' = dir
                  /\ byTag' = byTag
                  /\ items'[p] = items[p]
            /\ Aborted(p) =>
                  /\ pc'[p] = pc[p] /\ items'[p] = items[p] /\ result'[p] = result[p]
                  /\ ctx'[p] = ctx[p] /\ touched'[p] = touched[p]
                  /\ started'[p] = started[p]]_vars
    /\ [][\A x \in Disturbed :
            \/ tampered' # tampered
            \/ \E p \in Procs :
                  /\ ~Aborted(p)
                  /\ pc[p] = "unlink" /\ pc'[p] = "link"
                  /\ x = <<TmpDir(p), ctx[p].name>>]_vars

\* a prefetch batch has failed at its second url with a checksum mismatch,
\* and the file of its first url is in the store, complete and matching
C20_Witness ==
    \E p \in Procs :
        /\ kind[p] = "prefetch"
        /\ result[p] = "ChecksumMismatch"
        /\ Len(items[p]) = 1
        /\ \E n \in DOMAIN dir[FilesDir] :
              /\ n # Head(items[p])
              /\ <<FilesDir, n>> \in started[p]
              /\ Matches(FilesDir, n)

(***************************************************************************)
(* Properties of the cached links.                                         *)
(***************************************************************************)
\* the reference found by following the keys of path from the dict at itr,
\* the reference None if a key is missing
RECURSIVE NodeAt(_, _, _)
NodeAt(h, itr, path) ==
    IF path = <<>> THEN itr
    ELSE IF Head(path) \notin DOMAIN h[itr] THEN NoneRef
    ELSE NodeAt(h, h[itr][Head(path)], Tail(path))

\* the chain of build levels from the level at itr inwards: a level counts
\* if it is a non-empty dict, and the chain goes on through a non-empty
\* pipeline that has a build
RECURSIVE BuildChain(_, _)
BuildChain(h, itr) ==
    IF itr = NoneRef \/ h[itr] = Empty THEN <<>>
    ELSE <<itr>> \o
         (IF NodeAt(h, itr, <<"pipeline">>) = NoneRef
             \/ h[NodeAt(h, itr, <<"pipeline">>)] = Empty
          THEN <<>>
          ELSE BuildChain(h, NodeAt(h, itr, <<"pipeline", "build">>)))

\* the links are the nodes at their paths and the levels are the build chain
LinksFresh ==
    /\ DOMAIN mLinks = {LinkInfo[i].link : i \in DOMAIN LinkInfo}
    /\ \A i \in DOMAIN LinkInfo :
          mLinks[LinkInfo[i].link] = NodeAt(heap, mData, LinkInfo[i].path)
    /\ \A name \in DOMAIN mLinks : mLinks[name] # NoneRef
    /\ mLevels = BuildChain(heap, mData)

\* C21: whenever a pass of the driver loop starts (its _collect is about to
\* run), every cached link is the node at its path in the tree as it is now
\* and levels is the chain of build levels as it is now.
C21_LinksFreshAtPassStart == mpc = "collect" => LinksFresh

\* the fragment import pass starts after the base import pass of the same
\* round changed the manifest, which has a nested build level
C21_Witness ==
    /\ mpc = "collect"
    /\ procs[procIdx] = "MppPipelineImport"
    /\ Len(reports) = 2
    /\ reports[2]
    /\ Len(mLevels) >= 2

(***************************************************************************)
(* Properties of failing applications.                                     *)
(***************************************************************************)
\* the application of an import pass to the node at the head of todos fails
\* with a build conflict or on a source of unknown kind
ApplicationFails ==
    /\ BaseStep \/ ImportStep
    /\ raised = None
    /\ raised' \in {"ValueError(Importing conflicting build pipelines)",
                    "ValueError(Unknown source type)"}

\* C22: an application of a pass that fails with a build conflict or on a
\* source of unknown kind leaves the manifest, its sources included, as it
\* was when the application started.  (update_sources merges the urls of
\* the kinds it meets before the unknown one.)
C22_FailedApplicationMutatesNothing ==
    [][ApplicationFails => DumpDict(heap', mData) = DumpDict(heap, mData)]_vars

(***************************************************************************)
(* Properties of the serialized document.                                  *)
(***************************************************************************)
\* whether document doc has an entry at the keys of path
RECURSIVE HasPath(_, _)
HasPath(doc, path) ==
    \/ path = <<>>
    \/ /\ Head(path) \in DOMAIN doc
       /\ HasPath(doc[Head(path)], Tail(path))

\* the value at path in doc, which has it
RECURSIVE ValueAt(_, _)
ValueAt(doc, path) == IF path = <<>> THEN doc ELSE ValueAt(doc[Head(path)], Tail(path))

\* the paths of the cached links, and the root
LinkPaths == {LinkInfo[i].path : i \in DOMAIN LinkInfo}

\* the keys of the dict at path that are themselves cached links
LinkKeys(path) == {Last(q) : q \in {r \in LinkPaths : Front(r) = path}}

\* no cached link path holds its default in out
Stripped(out) ==
    \A i \in DOMAIN LinkInfo :
        HasPath(out, LinkInfo[i].path) => ValueAt(out, LinkInfo[i].path) # LinkInfo[i].default

\* out has, at the root and in every dict at a cached link path, the entries
\* of tree that are no cached links, and none that tree has not; a dict at a
\* cached link path is in out if it has an entry left, a list if not empty
Kept(out, tree) ==
    /\ \A path \in {<<>>, <<"pipeline">>, <<"sources">>, <<"sources", "org.osbuild.files">>} :
          HasPath(tree, path) =>
             LET here == ValueAt(tree, path)
             IN /\ \A k \in DOMAIN here \ LinkKeys(path) :
                      /\ HasPath(out, Append(path, k))
                      /\ ValueAt(out, Append(path, k)) = here[k]
                /\ HasPath(out, path) => DOMAIN ValueAt(out, path) \subseteq DOMAIN here
    /\ \A path \in {<<"pipeline", "stages">>, <<"sources", "org.osbuild.files", "urls">>} :
          (HasPath(tree, path) /\ ValueAt(tree, path) # Empty) =>
             (HasPath(out, path) /\ ValueAt(out, path) = ValueAt(tree, path))

\* C23: the document written has no cached link path holding its default,
\* a parent emptied by the removal of its child included; everything else
\* of the model's tree is in it as it is in the tree; and writing it leaves
\* the objects, links and levels of the model as they are.
C23_StripCascadesAndKeeps ==
    /\ [](mpc = "done" =>
            /\ Stripped(output[1])
            /\ Kept(output[1], DumpDict(heap, mData)))
    /\ [][(mpc = "while" /\ mpc' = "done")
          => (heap' = heap /\ mData' = mData /\ mLinks' = mLinks /\ mLevels' = mLevels)]_vars

\* a manifest changed by a pass is written: its stages are in the output,
\* its sources, which hold nothing but empty defaults, are not, and the
\* model still has them
C23_Witness ==
    /\ mpc = "done"
    /\ run = 1
    /\ rounds = 2
    /\ "sources" \notin DOMAIN output[1]
    /\ "pipeline" \in DOMAIN output[1]
    /\ "stages" \in DOMAIN output[1]["pipeline"]
    /\ heap[mLinks["urls"]] = Empty
    /\ heap[mLinks["files"]] # Empty

(***************************************************************************)
(* Properties of the nodes a pass works on.                                *)
(***************************************************************************)
\* the dicts and lists of the tree below the dict at reference id, id included
RECURSIVE TreeNodes(_, _)
TreeNodes(h, id) ==
    {id}
    \cup UNION {TreeNodes(h, h[id][k]) : k \in DOMAIN h[id] \cap DictKeys}
    \cup (IF ListKey \in DOMAIN h[id]
          THEN {h[id][ListKey]}
               \cup UNION {TreeNodes(h, h[h[id][ListKey]][i]) :
                              i \in DOMAIN h[h[id][ListKey]]}
          ELSE {})

\* C24: the node a pass rewrites is, when the rewrite is applied, a node of
\* the manifest's tree.  (The fragment import pass collects its nodes before
\* it rewrites any: a build level below a level whose pipeline it has just
\* replaced is rewritten all the same, and the sources of its import are
\* merged into the manifest.)
C24_RewrittenNodesAreLive ==
    [][((BaseStep \/ ImportStep \/ DepsolveStep) /\ Processed)
       => Head(todos) \in TreeNodes(heap, mData)]_vars

(***************************************************************************)
(* Properties of names in the store.                                       *)
(***************************************************************************)
\* C25: a name that is in a directory of the store is there after every
\* step, a later publish under the same name included.  (open_tmpfile
\* unlinks the name and then links the new file: between the two steps the
\* name is absent.)
C25_PublishedStaysVisible ==
    [][\A d \in Dirs : DOMAIN dir[d] \subseteq DOMAIN dir'[d]]_vars

(***************************************************************************)
(* Termination.                                                            *)
(***************************************************************************)
\* C26: a run on a manifest whose imports, followed through what they
\* splice in, lead into no cycle ends: the driver gets to write its output
\* or an exception ends it.  (Only a fragment import brings annotations
\* that name files along, those on the build levels of the pipeline it
\* splices in; every application removes the annotation it worked on.)
C26_TerminatesWithoutCycles ==
    (mpc = "enter" /\ run = 1 /\ ~NestedImportCycle(input)) ~> (mpc \in {"done", "error"})

\* the same without the premise: a run on a manifest whose imports lead into
\* a cycle goes round after round
C26_TerminatesAlways ==
    (mpc = "enter" /\ run = 1) ~> (mpc \in {"done", "error"})

\* every step of the driver is one of those the fair specification asks for,
\* or the exception that ends an application
C26_StepsAreRunSteps ==
    [][RunAdvances \/ TodoAdvances \/ (mpc = "apply" /\ todos # <<>> /\ mpc' = "error")]_vars

\* a run that imported chain.json, and with it two more imports, has
\* written its output after three rounds
C26_Witness ==
    /\ mpc = "done"
    /\ run = 1
    /\ rounds = 3
    /\ ~NestedImportCycle(input)
    /\ "mpp-pipeline-import" \in DOMAIN input
    /\ input["mpp-pipeline-import"] = "chain.json"

=================================================================
